---- MODULE Spec2Model ----
(***************************************************************************)
(* Model of the EOD GitHub contribution tracker: the commit aggregator     *)
(* (GitHubService.getCommitsForRepo), the Reporter's sortAndDedup and its  *)
(* public methods, the EODProcessor filter/grouper, the date utilities,    *)
(* main's day fallback, a run followed request by request, and the         *)
(* WhatsApp notifier that sends the latest summary file.                   *)
(***************************************************************************)
EXTENDS Integers, Sequences, FiniteSets, TLC

(***************************************************************************)
(* Bounds of the model.                                                    *)
(***************************************************************************)
\* longest branch listing a repository returns
MaxBranchList == 3
\* largest configured maxBranches
MaxCap == 2
\* longest commit page one branch returns
MaxResp == 2
\* longest commit list handed to sortAndDedup
MaxCommits == 3
\* longest event list handed to EODProcessor.process
MaxEvents == 2
\* largest number of calls of the Reporter's public methods on one instance
MaxCalls == 3
\* longest content handed to WhatsAppService.formatContent
MaxContent == 10
\* MAX_CONTENT_LENGTH of formatContent: the code computes 1500 - header.length;
\* the model keeps the content limit a few characters long
MAX_CONTENT_LENGTH == 5

(***************************************************************************)
(* Generic sequence helpers.                                               *)
(***************************************************************************)
Range(s) == {s[i] : i \in 1..Len(s)}

Min(a, b) == IF a <= b THEN a ELSE b

Max(a, b) == IF a >= b THEN a ELSE b

\* all sequences over S of length at most n
SeqsUpTo(S, n) == UNION {[1..k -> S] : k \in 0..n}

\* sequences without repeated elements
NoDupSeqs(S, n) == {s \in SeqsUpTo(S, n) : \A i, j \in 1..Len(s) : s[i] = s[j] => i = j}

\* Array.prototype.slice(0, end): a negative end counts from the end of the array
Slice0(s, end) ==
    LET k == IF end < 0 THEN Max(Len(s) + end, 0) ELSE Min(end, Len(s))
    IN  SubSeq(s, 1, k)

(***************************************************************************)
(* Remote data: branch names and the commits the API returns.  A full SHA  *)
(* is a pair <<first seven characters, remaining characters>>.             *)
(***************************************************************************)
BranchNames == {"main", "master", "feature-a", "feature-b"}

Authors == {"alice", "bob"}

\* commit objects of GET /repos/{owner}/{repo}/commits: sha, commit.author.name
ApiCommits ==
    { [sha |-> <<1, 1>>, name |-> "alice"],
      [sha |-> <<1, 2>>, name |-> "bob"],
      [sha |-> <<2, 1>>, name |-> "alice"] }

BranchListings == NoDupSeqs(BranchNames, MaxBranchList)

CommitPages == SeqsUpTo(ApiCommits, MaxResp)

(***************************************************************************)
(* State.                                                                  *)
(***************************************************************************)
VARIABLES
    gPc,               \* getCommitsForRepo: "start", "loop", "done", "threw"
    maxBranches,       \* the maxBranches argument
    repoBranches,      \* what getBranchesForRepo returned
    branches,          \* the local `branches` after sampling
    bi,                \* index of the next branch of the for loop
    reqLog,            \* the commit requests issued so far and their outcome
    allCommits,        \* the local `allCommits`
    processedCommits,  \* the local `processedCommits` (set of full SHAs)
    rPc,               \* Reporter.sortAndDedup: "idle", "ready", "once", "twice"
    rCommits,          \* the commit list of a Contribution handed to the Reporter
    rOnce,             \* sortAndDedup(rCommits)
    rTwice,            \* sortAndDedup(rOnce)
    rCall,             \* the last call of a public method of the Reporter
    rReturned,         \* what the last generateMinimalEODReport returned
    rCount,            \* number of calls of public methods of the Reporter so far
    tz,                \* the process's time zone: local time = UTC + tz (ms)
    eDate,             \* EODProcessor.date (an instant, ms)
    eTargetRepos,      \* EODProcessor.targetRepos
    eTargetUsers,      \* EODProcessor.targetUsers
    dPc,               \* isDateInRange: "idle", "ready", "done"
    dEvent,            \* the instant of the created_at handed to isDateInRange
    dInRange,          \* what isDateInRange returned
    pPc,               \* process: "idle", "ready", "done"
    events,            \* the events handed to process
    filteredEvents,    \* the local `filteredEvents` of process
    contributions,     \* what process returned
    mPc,               \* main: "idle", "load", "fetch", "process", "exit"
    env,               \* process.env and argv as main finds them
    config,            \* the AppConfig of main (targetRepos normalised)
    now,               \* the wall clock, new Date() (an instant)
    pass,              \* 1: the pass for the target date, 2: the previous-day pass
    fPc,               \* fetchEvents: "org", "user", "repos"
    fDate,             \* the date argument of fetchEvents
    fRepos,            \* the local Set `repos`, in insertion order
    ri,                \* index of the next repository of the loop over repos
    ui,                \* index of the next user of the loop over targetUsers
    fEvents,           \* the local `events` of fetchEvents
    mContributions,    \* main's `contributions` (result of the first pass)
    requests,          \* remote requests issued so far
    console,           \* reports printed by Reporter.print
    files,             \* the files of the output directory
    exitCode,          \* -1 while running, then the exit code of the process
    wPc,               \* formatContent: "idle", "ready", "loop", "done"
    wContent,          \* the content argument of formatContent (characters)
    remainingContent,  \* the local `remainingContent`
    messages,          \* the local `messages`
    partNumber,        \* the local `partNumber`
    totalParts,        \* the local `totalParts`
    nPc,               \* send-whatsapp: "idle", "start", "ready", "read", "threw"
    nWritten,          \* the summary the tracker run before the notifier wrote
    nLatest,           \* what getLatestFile returned
    nSummary           \* what readFileContent returned

aggVars == <<gPc, maxBranches, repoBranches, branches, bi, reqLog, allCommits,
             processedCommits>>

repVars == <<rPc, rCommits, rOnce, rTwice, rCall, rReturned, rCount>>

eodVars == <<tz, eDate, eTargetRepos, eTargetUsers, dPc, dEvent, dInRange, pPc, events,
             filteredEvents, contributions>>

mainVars == <<mPc, env, config, now, pass, fPc, fDate, fRepos, ri, ui, fEvents,
              mContributions, requests, console, files, exitCode>>

notifyVars == <<wPc, wContent, remainingContent, messages, partNumber, totalParts,
                nPc, nWritten, nLatest, nSummary>>

vars == <<aggVars, repVars, eodVars, mainVars, notifyVars>>

\* the state of a component that takes no part in a specification
AggIdle ==
    /\ gPc = "idle"
    /\ maxBranches = 0
    /\ repoBranches = <<>>
    /\ branches = <<>>
    /\ bi = 1
    /\ reqLog = <<>>
    /\ allCommits = <<>>
    /\ processedCommits = {}

\* the empty summary
NoMessage == [format |-> "summary", title |-> 0, body |-> <<>>]

\* no method of the Reporter has been called
NoCall ==
    [op |-> "none", contribs |-> <<>>, date |-> 0, format |-> "", message |-> NoMessage]

\* null, where a file name is expected
NoFile == [base |-> "", dated |-> FALSE, date |-> 0, ext |-> ""]

FormatIdle ==
    /\ wPc = "idle"
    /\ wContent = <<>>
    /\ remainingContent = <<>>
    /\ messages = <<>>
    /\ partNumber = 1
    /\ totalParts = 0

NotifierIdle ==
    /\ nPc = "idle"
    /\ nWritten = NoMessage
    /\ nLatest = NoFile
    /\ nSummary = NoMessage

RepIdle ==
    /\ FormatIdle
    /\ NotifierIdle
    /\ rPc = "idle"
    /\ rCommits = <<>>
    /\ rOnce = <<>>
    /\ rTwice = <<>>
    /\ rCall = NoCall
    /\ rReturned = NoMessage
    /\ rCount = 0

DateCheckIdle ==
    /\ dPc = "idle"
    /\ dEvent = 0
    /\ dInRange = FALSE

ProcessIdle ==
    /\ pPc = "idle"
    /\ events = <<>>
    /\ filteredEvents = <<>>
    /\ contributions = <<>>

NoConfig ==
    [token |-> FALSE, targetUsers |-> <<>>, targetRepos |-> <<>>, organization |-> FALSE,
     date |-> 0, checkPreviousDay |-> FALSE, noFiles |-> FALSE, output |-> "txt"]

FetchIdle ==
    /\ fPc = "idle"
    /\ fDate = 0
    /\ fRepos = <<>>
    /\ ri = 1
    /\ ui = 1
    /\ fEvents = <<>>

MainIdle ==
    /\ mPc = "idle"
    /\ env = NoConfig
    /\ config = NoConfig
    /\ now = 0
    /\ pass = 1
    /\ FetchIdle
    /\ mContributions = <<>>
    /\ requests = <<>>
    /\ console = <<>>
    /\ files = <<>>
    /\ exitCode = -1

EodIdle ==
    /\ tz = 0
    /\ eDate = 0
    /\ eTargetRepos = <<>>
    /\ eTargetUsers = <<>>
    /\ DateCheckIdle
    /\ ProcessIdle

(***************************************************************************)
(* GitHubService.getCommitsForRepo                                         *)
(***************************************************************************)
IsDefaultBranch(b) == b = "main" \/ b = "master"

\* branches.find(...): index of the first main or master of the listing, 0 when none
FindDefault(list) ==
    IF \E i \in 1..Len(list) : IsDefaultBranch(list[i])
    THEN CHOOSE i \in 1..Len(list) :
            IsDefaultBranch(list[i]) /\ \A j \in 1..(i - 1) : ~IsDefaultBranch(list[j])
    ELSE 0

\* mutant: main is looked for first, master only when main is absent
SampleBranchesPreferMain(list, cap) ==
    IF Len(list) > cap
    THEN LET head == IF \E i \in 1..Len(list) : list[i] = "main" THEN <<"main">>
                     ELSE IF \E i \in 1..Len(list) : list[i] = "master" THEN <<"master">>
                     ELSE <<>>
             otherBranches == SelectSeq(list, LAMBDA b : ~IsDefaultBranch(b))
         IN  head \o Slice0(otherBranches, cap - Len(head))
    ELSE list

\* mutant: the slot taken by the default branch is not subtracted from the cap
SampleBranchesOffByOne(list, cap) ==
    IF Len(list) > cap
    THEN LET k == FindDefault(list)
             head == IF k > 0 THEN <<list[k]>> ELSE <<>>
             otherBranches == SelectSeq(list, LAMBDA b : ~IsDefaultBranch(b))
         IN  head \o Slice0(otherBranches, cap)
    ELSE list

\* the branch sampling of getCommitsForRepo
SampleBranches(list, cap) ==
    IF Len(list) > cap
    THEN LET k == FindDefault(list)
             head == IF k > 0 THEN <<list[k]>> ELSE <<>>
             otherBranches == SelectSeq(list, LAMBDA b : ~IsDefaultBranch(b))
         IN  head \o Slice0(otherBranches, cap - Len(head))
    ELSE list

\* mutant: every commit of the page is pushed, seen or not
MergePageNoDedup(acc, page) ==
    [all |-> acc.all \o page,
     seen |-> acc.seen \cup {page[i].sha : i \in 1..Len(page)}]

\* mutant: a commit not seen yet is put in front of the list (unshift)
RECURSIVE MergePagePrepend(_, _)
MergePagePrepend(acc, page) ==
    IF page = <<>> THEN acc
    ELSE LET c == Head(page)
         IN  IF c.sha \in acc.seen
             THEN MergePagePrepend(acc, Tail(page))
             ELSE MergePagePrepend([all |-> <<c>> \o acc.all,
                                    seen |-> acc.seen \cup {c.sha}],
                                   Tail(page))

\* the inner loop over res.data: push the commits whose sha was not seen yet
RECURSIVE MergePage(_, _)
MergePage(acc, page) ==
    IF page = <<>> THEN acc
    ELSE LET c == Head(page)
         IN  IF c.sha \in acc.seen
             THEN MergePage(acc, Tail(page))
             ELSE MergePage([all |-> Append(acc.all, c), seen |-> acc.seen \cup {c.sha}],
                            Tail(page))

\* await this.getBranchesForRepo(repoFullName) succeeded: sample the branches
GetBranchesOk ==
    /\ gPc = "start"
    /\ \E list \in BranchListings :
          /\ repoBranches' = list
          /\ branches' = SampleBranches(list, maxBranches)
    /\ gPc' = "loop"
    /\ UNCHANGED <<maxBranches, bi, reqLog, allCommits, processedCommits>>
    /\ UNCHANGED <<repVars, notifyVars, eodVars, mainVars>>

\* await this.getBranchesForRepo(repoFullName) rejected: the error propagates
GetBranchesFail ==
    /\ gPc = "start"
    /\ gPc' = "threw"
    /\ UNCHANGED <<maxBranches, repoBranches, branches, bi, reqLog, allCommits,
                   processedCommits>>
    /\ UNCHANGED <<repVars, notifyVars, eodVars, mainVars>>

\* one iteration of the for loop whose request resolved with `page`
FetchBranchOk ==
    /\ gPc = "loop"
    /\ bi <= Len(branches)
    /\ \E page \in CommitPages :
          LET acc == MergePage([all |-> allCommits, seen |-> processedCommits], page)
          IN  /\ allCommits' = acc.all
              /\ processedCommits' = acc.seen
              /\ reqLog' = Append(reqLog, [branch |-> branches[bi], ok |-> TRUE,
                                           data |-> page])
    /\ bi' = bi + 1
    /\ UNCHANGED <<gPc, maxBranches, repoBranches, branches>>
    /\ UNCHANGED <<repVars, notifyVars, eodVars, mainVars>>

\* mutant: a rejected commit request propagates out of getCommitsForRepo
FetchBranchFailAborts ==
    /\ gPc = "loop"
    /\ bi <= Len(branches)
    /\ reqLog' = Append(reqLog, [branch |-> branches[bi], ok |-> FALSE, data |-> <<>>])
    /\ gPc' = "threw"
    /\ UNCHANGED <<maxBranches, repoBranches, branches, bi, allCommits, processedCommits>>
    /\ UNCHANGED <<repVars, notifyVars, eodVars, mainVars>>

\* one iteration of the for loop whose request rejected: caught, next branch
FetchBranchFail ==
    /\ gPc = "loop"
    /\ bi <= Len(branches)
    /\ reqLog' = Append(reqLog, [branch |-> branches[bi], ok |-> FALSE, data |-> <<>>])
    /\ bi' = bi + 1
    /\ UNCHANGED <<gPc, maxBranches, repoBranches, branches, allCommits, processedCommits>>
    /\ UNCHANGED <<repVars, notifyVars, eodVars, mainVars>>

\* return allCommits
ReturnCommits ==
    /\ gPc = "loop"
    /\ bi > Len(branches)
    /\ gPc' = "done"
    /\ UNCHANGED <<maxBranches, repoBranches, branches, bi, reqLog, allCommits,
                   processedCommits>>
    /\ UNCHANGED <<repVars, notifyVars, eodVars, mainVars>>

AggInit ==
    /\ gPc = "start"
    /\ maxBranches \in 0..MaxCap
    /\ repoBranches = <<>>
    /\ branches = <<>>
    /\ bi = 1
    /\ reqLog = <<>>
    /\ allCommits = <<>>
    /\ processedCommits = {}
    /\ RepIdle
    /\ EodIdle
    /\ MainIdle

AggNext ==
    \/ GetBranchesOk
    \/ GetBranchesFail
    \/ FetchBranchOk
    \/ FetchBranchFail
    \/ ReturnCommits

SpecAgg == AggInit /\ [][AggNext]_vars

(***************************************************************************)
(* Reporter.sortAndDedup.  A Commit is {hash, message, author, timestamp}; *)
(* hash is the first seven characters of the SHA and timestamp is the      *)
(* instant (ms) that new Date(c.timestamp).getTime() yields.               *)
(***************************************************************************)
Hashes == {1, 2}

Instants == {1, 2, 3}

ReportCommits ==
    [hash : Hashes, message : {"m"}, author : Authors, timestamp : Instants]

\* insert c into a list sorted by descending timestamp, after its equals (stable)
RECURSIVE InsertDesc(_, _)
InsertDesc(sorted, c) ==
    IF sorted = <<>> THEN <<c>>
    ELSE IF Head(sorted).timestamp >= c.timestamp
         THEN <<Head(sorted)>> \o InsertDesc(Tail(sorted), c)
         ELSE <<c>> \o sorted

\* [...commits].sort((a, b) => time(b) - time(a)): stable, descending timestamp
RECURSIVE SortDesc(_)
SortDesc(commits) ==
    IF commits = <<>> THEN <<>>
    ELSE InsertDesc(SortDesc(SubSeq(commits, 1, Len(commits) - 1)), commits[Len(commits)])

\* mutant: a hash already in the Map keeps its first value
MapValuesKeepFirst(sorted) ==
    LET firsts == {i \in 1..Len(sorted) :
                      \A j \in 1..(i - 1) : sorted[j].hash # sorted[i].hash}
        F[i \in 0..Len(sorted)] ==
            IF i = 0 THEN <<>>
            ELSE IF i \in firsts THEN Append(F[i - 1], sorted[i]) ELSE F[i - 1]
    IN  F[Len(sorted)]

\* Array.from(new Map(sorted.map((c) => [c.hash, c])).values()): a Map keeps a
\* key at the position of its first insertion and holds the value set last
MapValues(sorted) ==
    LET firsts == {i \in 1..Len(sorted) :
                      \A j \in 1..(i - 1) : sorted[j].hash # sorted[i].hash}
        lastOf(h) == CHOOSE k \in 1..Len(sorted) :
                        /\ sorted[k].hash = h
                        /\ \A j \in (k + 1)..Len(sorted) : sorted[j].hash # h
        F[i \in 0..Len(sorted)] ==
            IF i = 0 THEN <<>>
            ELSE IF i \in firsts
                 THEN Append(F[i - 1], sorted[lastOf(sorted[i].hash)])
                 ELSE F[i - 1]
    IN  F[Len(sorted)]

sortAndDedup(commits) == MapValues(SortDesc(commits))

\* a rendering path calls sortAndDedup on the commits of a Contribution
SortAndDedupOnce ==
    /\ rPc = "ready"
    /\ rOnce' = sortAndDedup(rCommits)
    /\ rPc' = "once"
    /\ UNCHANGED <<rCommits, rTwice, rCall, rReturned, rCount>>
    /\ UNCHANGED notifyVars
    /\ UNCHANGED <<aggVars, eodVars, mainVars>>

\* sortAndDedup applied to its own result
SortAndDedupAgain ==
    /\ rPc = "once"
    /\ rTwice' = sortAndDedup(rOnce)
    /\ rPc' = "twice"
    /\ UNCHANGED <<rCommits, rOnce, rCall, rReturned, rCount>>
    /\ UNCHANGED notifyVars
    /\ UNCHANGED <<aggVars, eodVars, mainVars>>

RepInit ==
    /\ rPc = "ready"
    /\ rCommits \in SeqsUpTo(ReportCommits, MaxCommits)
    /\ rOnce = <<>>
    /\ rTwice = <<>>
    /\ rCall = NoCall
    /\ rReturned = NoMessage
    /\ rCount = 0
    /\ FormatIdle
    /\ NotifierIdle
    /\ AggIdle
    /\ EodIdle
    /\ MainIdle

RepNext ==
    \/ SortAndDedupOnce
    \/ SortAndDedupAgain

SpecReporter == RepInit /\ [][RepNext]_vars

(***************************************************************************)
(* Date utilities and EODProcessor.isDateInRange.  An instant is a number  *)
(* of milliseconds since the epoch (UTC); Date.setHours works on the local *)
(* wall clock, which is the instant shifted by the zone offset tz.         *)
(***************************************************************************)
MsPerHour == 60 * 60 * 1000

MsPerDay == 24 * MsPerHour

\* zone offsets of the process: UTC, UTC+05:30, UTC-05:00
TzOffsets == {0, 5 * MsPerHour + 30 * 60 * 1000, 0 - 5 * MsPerHour}

\* the local wall-clock time of day of instant t
LocalTimeOfDay(t) == (t + tz) % MsPerDay

\* date.setHours(h, m, s, ms): same local calendar day, the given time of day
SetHours(t, h, m, sec, ms) ==
    (t - LocalTimeOfDay(t)) + ((h * 60 + m) * 60 + sec) * 1000 + ms

\* getStartOfDay / start.setHours(0, 0, 0, 0)
getStartOfDay(t) == SetHours(t, 0, 0, 0, 0)

\* getEndOfDay / end.setHours(23, 59, 59, 999)
getEndOfDay(t) == SetHours(t, 23, 59, 59, 999)

\* mutant: the end of the day is excluded
isDateInRangeEndExclusive(eventDate, date) ==
    eventDate >= getStartOfDay(date) /\ eventDate < getEndOfDay(date)

\* EODProcessor.isDateInRange with this.date = date
isDateInRange(eventDate, date) ==
    eventDate >= getStartOfDay(date) /\ eventDate <= getEndOfDay(date)

\* instants a configured date can be: UTC midnight of day 2 (new Date('YYYY-MM-DD')),
\* and two instants in the course of day 2 (new Date() at run time)
ConfigDates == {2 * MsPerDay, 2 * MsPerDay + 9 * MsPerHour, 2 * MsPerDay + 22 * MsPerHour}

\* instants of events: the day boundaries of days 1 to 3 in every zone of
\* TzOffsets, each with the millisecond before it, and the noons
EventInstants ==
    UNION {{d * MsPerDay - off - 1, d * MsPerDay - off} : d \in 1..4, off \in TzOffsets}
    \cup {d * MsPerDay + 12 * MsPerHour : d \in 1..3}

\* isDateInRange(event.created_at) is evaluated
CheckDate ==
    /\ dPc = "ready"
    /\ dInRange' = isDateInRange(dEvent, eDate)
    /\ dPc' = "done"
    /\ UNCHANGED <<tz, eDate, eTargetRepos, eTargetUsers, dEvent, pPc, events,
                   filteredEvents, contributions>>
    /\ UNCHANGED <<aggVars, repVars, notifyVars, mainVars>>

DateInit ==
    /\ tz \in TzOffsets
    /\ eDate \in ConfigDates
    /\ eTargetRepos = <<>>
    /\ eTargetUsers = <<>>
    /\ dPc = "ready"
    /\ dEvent \in EventInstants
    /\ dInRange = FALSE
    /\ ProcessIdle
    /\ AggIdle
    /\ RepIdle
    /\ MainIdle

DateNext ==
    \/ CheckDate

SpecDate == DateInit /\ [][DateNext]_vars

(***************************************************************************)
(* EODProcessor.process                                                    *)
(***************************************************************************)
RepoNames == {"org/app", "org/Zeta"}

\* String.prototype.localeCompare on the repository names of the model: the
\* collation orders letters before case, so "org/app" sorts before "org/Zeta"
LocaleRank(repo) == IF repo = "org/app" THEN 1 ELSE 2

\* commits of a push payload: sha, message, author.name
PayloadCommitA == [sha |-> <<1, 1>>, message |-> "m", name |-> "alice"]

PayloadCommitB == [sha |-> <<2, 1>>, message |-> "m", name |-> "bob"]

\* payload.commits: absent, or a list
PayloadLists == {<<>>, <<PayloadCommitB>>, <<PayloadCommitA, PayloadCommitB>>}

\* created_at of the events: noon of day 2, and the last millisecond of day 1 (UTC)
ProcessInstants == {2 * MsPerDay + 12 * MsPerHour, 2 * MsPerDay - 1}

\* GitHubEvent: payload.commits and actor are optional
EventPool ==
    { e \in [created_at : ProcessInstants,
             type : {"PushEvent", "WatchEvent"},
             repo : RepoNames,
             hasCommits : BOOLEAN,
             commits : PayloadLists,
             hasActor : BOOLEAN,
             login : {"", "alice", "bob"}] :
        /\ (e.hasCommits <=> e.commits # <<>>)
        /\ (e.hasActor <=> e.login # "") }

\* Array.prototype.includes
Includes(list, x) == \E i \in 1..Len(list) : list[i] = x

repoMatch(e) == Len(eTargetRepos) = 0 \/ Includes(eTargetRepos, e.repo)

\* mutant: the actor login is not looked at
userMatchAuthorsOnly(e) ==
    \/ Len(eTargetUsers) = 0
    \/ (e.hasCommits /\ \E i \in 1..Len(e.commits) : Includes(eTargetUsers, e.commits[i].name))

userMatch(e) ==
    \/ Len(eTargetUsers) = 0
    \/ (e.hasCommits /\ \E i \in 1..Len(e.commits) : Includes(eTargetUsers, e.commits[i].name))
    \/ (e.hasActor /\ Includes(eTargetUsers, e.login))

\* the predicate of events.filter(...)
EventPasses(e) ==
    /\ e.type = "PushEvent"
    /\ isDateInRange(e.created_at, eDate)
    /\ repoMatch(e)
    /\ userMatch(e)

\* mutant: the per-commit filter is skipped
CommitKeptAlways(c) == TRUE

\* the predicate of event.payload.commits.filter(...)
CommitKept(c) == Len(eTargetUsers) = 0 \/ Includes(eTargetUsers, c.name)

\* sha.substring(0, 7)
ShortHash(sha) == sha[1]

\* the .map<Commit>(...) of process
ToCommit(c, e) ==
    [hash |-> ShortHash(c.sha), message |-> c.message, author |-> c.name,
     timestamp |-> e.created_at]

userCommitsOf(e) ==
    LET kept == SelectSeq(e.commits, CommitKept)
    IN  [i \in 1..Len(kept) |-> ToCommit(kept[i], e)]

\* mutant: the test `userCommits.length === 0` is missing
AddEventKeepEmpty(contribs, e) ==
    IF ~e.hasCommits THEN contribs
    ELSE LET userCommits == userCommitsOf(e)
         IN  IF \E i \in 1..Len(contribs) : contribs[i].repo = e.repo
             THEN LET k == CHOOSE i \in 1..Len(contribs) : contribs[i].repo = e.repo
                  IN  [contribs EXCEPT ![k].commits = @ \o userCommits]
             ELSE Append(contribs, [repo |-> e.repo, commits |-> userCommits])

\* one iteration of the loop over filteredEvents
AddEvent(contribs, e) ==
    IF ~e.hasCommits THEN contribs
    ELSE LET userCommits == userCommitsOf(e)
         IN  IF Len(userCommits) = 0 THEN contribs
             ELSE IF \E i \in 1..Len(contribs) : contribs[i].repo = e.repo
                  THEN LET k == CHOOSE i \in 1..Len(contribs) : contribs[i].repo = e.repo
                       IN  [contribs EXCEPT ![k].commits = @ \o userCommits]
                  ELSE Append(contribs, [repo |-> e.repo, commits |-> userCommits])

RECURSIVE GroupEvents(_)
GroupEvents(evs) ==
    IF evs = <<>> THEN <<>>
    ELSE AddEvent(GroupEvents(SubSeq(evs, 1, Len(evs) - 1)), evs[Len(evs)])

\* insert a contribution into a list sorted by localeCompare of the repo names
RECURSIVE InsertByRepo(_, _)
InsertByRepo(sorted, c) ==
    IF sorted = <<>> THEN <<c>>
    ELSE IF LocaleRank(Head(sorted).repo) <= LocaleRank(c.repo)
         THEN <<Head(sorted)>> \o InsertByRepo(Tail(sorted), c)
         ELSE <<c>> \o sorted

\* mutant: the contributions are left in first-seen order
SortByRepoFirstSeen(contribs) == contribs

\* contributions.sort((a, b) => a.repo.localeCompare(b.repo))
RECURSIVE SortByRepo(_)
SortByRepo(contribs) ==
    IF contribs = <<>> THEN <<>>
    ELSE InsertByRepo(SortByRepo(SubSeq(contribs, 1, Len(contribs) - 1)),
                      contribs[Len(contribs)])

\* EODProcessor.process(events): filter, group, sort
Process ==
    /\ pPc = "ready"
    /\ filteredEvents' = SelectSeq(events, EventPasses)
    /\ contributions' = SortByRepo(GroupEvents(SelectSeq(events, EventPasses)))
    /\ pPc' = "done"
    /\ UNCHANGED <<tz, eDate, eTargetRepos, eTargetUsers, dPc, dEvent, dInRange, events>>
    /\ UNCHANGED <<aggVars, repVars, notifyVars, mainVars>>

ProcessInit ==
    /\ tz \in {0, 5 * MsPerHour + 30 * 60 * 1000}
    /\ eDate = 2 * MsPerDay + 9 * MsPerHour
    /\ eTargetRepos \in {<<>>, <<"org/app">>}
    /\ eTargetUsers \in {<<>>, <<"alice">>}
    /\ DateCheckIdle
    /\ pPc = "ready"
    /\ events \in SeqsUpTo(EventPool, MaxEvents)
    /\ filteredEvents = <<>>
    /\ contributions = <<>>
    /\ AggIdle
    /\ RepIdle
    /\ MainIdle

ProcessNext ==
    \/ Process

SpecProcess == ProcessInit /\ [][ProcessNext]_vars

(***************************************************************************)
(* Reporter operations used by main.  A rendered report is held as data:   *)
(* its title date and, per Contribution, the commits in rendered order.    *)
(***************************************************************************)
\* the per-repository sections of print, writeToFile (txt, md) and the summary
Render(contribs) ==
    [k \in 1..Len(contribs) |->
        [repo |-> contribs[k].repo, commits |-> sortAndDedup(contribs[k].commits)]]

\* the file system is a function from the names of the entries of the output
\* directory (and of the directory itself) to their contents
\* fs.writeFileSync(path, content): creates or overwrites
WriteFile(fs, name, content) ==
    [n \in DOMAIN fs \cup {name} |-> IF n = name THEN content ELSE fs[n]]

\* the output directory, as an entry of the file system
OutputDir == [base |-> "reports", dated |-> FALSE, date |-> 0, ext |-> ""]

\* if (!fs.existsSync(outDir)) fs.mkdirSync(outDir, { recursive: true })
MkDir(fs) ==
    IF OutputDir \in DOMAIN fs THEN fs
    ELSE WriteFile(fs, OutputDir, [format |-> "dir", title |-> 0, body |-> <<>>])

\* Reporter.print(contributions, dateStr): the text sent to the console
Printed(contribs, dateStr) == [title |-> dateStr, body |-> Render(contribs)]

\* JSON text is held as its sequence of tokens: punctuation, keys and values
Punct(p) == <<"p", p>>

\* the own properties of a Commit and of a Contribution, in insertion order
CommitKeys == <<"hash", "message", "author", "timestamp">>

\* the concatenation of a sequence of token sequences
RECURSIVE Concat(_)
Concat(ss) == IF ss = <<>> THEN <<>> ELSE Head(ss) \o Concat(Tail(ss))

\* JSON.stringify of a Commit
StringifyCommit(c) ==
    <<Punct("{")>>
    \o Concat([i \in 1..Len(CommitKeys) |-> <<<<"key", CommitKeys[i]>>,
                                               <<"val", c[CommitKeys[i]]>>>>])
    \o <<Punct("}")>>

\* JSON.stringify of a Contribution
StringifyContribution(c) ==
    <<Punct("{"), <<"key", "repo">>, <<"val", c.repo>>, <<"key", "commits">>, Punct("[")>>
    \o Concat([i \in 1..Len(c.commits) |-> StringifyCommit(c.commits[i])])
    \o <<Punct("]"), Punct("}")>>

\* JSON.stringify(contributions, null, 2)
JSONStringify(contribs) ==
    <<Punct("[")>>
    \o Concat([k \in 1..Len(contribs) |-> StringifyContribution(contribs[k])])
    \o <<Punct("]")>>

\* mutant: the JSON file is written from the sorted and deduplicated commits
FileContentJsonRendered(contribs, dateStr, format) ==
    IF format = "json"
    THEN [format |-> "json", title |-> 0, body |-> JSONStringify(Render(contribs))]
    ELSE [format |-> format, title |-> dateStr, body |-> Render(contribs)]

\* the content written by writeToFile in each format; a JSON file has no title line
FileContent(contribs, dateStr, format) ==
    IF format = "json"
    THEN [format |-> "json", title |-> 0, body |-> JSONStringify(contribs)]
    ELSE [format |-> format, title |-> dateStr, body |-> Render(contribs)]

\* mutant: this.noFiles is not looked at
writeToFileAlways(fs, noFiles, contribs, dateStr, format) ==
    WriteFile(MkDir(fs), [base |-> "contributions", dated |-> TRUE, date |-> dateStr,
                          ext |-> format],
              FileContent(contribs, dateStr, format))

\* Reporter.writeToFile(contributions, dateStr, format)
writeToFile(fs, noFiles, contribs, dateStr, format) ==
    IF noFiles THEN fs
    ELSE WriteFile(MkDir(fs), [base |-> "contributions", dated |-> TRUE, date |-> dateStr,
                        ext |-> format],
                   FileContent(contribs, dateStr, format))

\* date.toISOString().split('T')[0]: the UTC calendar day, as a day number
formatISODate(t) == t \div MsPerDay

\* today.toLocaleDateString(...): the local calendar day, as a day number
LocalDateString(t) == (t + tz) \div MsPerDay

\* mutant: the summary is headed by the configured target date
generateMinimalEODReportForTarget(contribs) ==
    [format |-> "summary", title |-> formatISODate(config.date), body |-> Render(contribs)]

\* Reporter.generateMinimalEODReport(contributions)
generateMinimalEODReport(contribs) ==
    [format |-> "summary", title |-> LocalDateString(now), body |-> Render(contribs)]

\* mutant: only the date-stamped summary file is written
writeMinimalEODReportFileDatedOnly(fs, noFiles, message) ==
    IF noFiles THEN fs
    ELSE WriteFile(MkDir(fs), [base |-> "eod-summary", dated |-> TRUE,
                               date |-> formatISODate(now), ext |-> "txt"], message)

\* Reporter.writeMinimalEODReportFile(message)
writeMinimalEODReportFile(fs, noFiles, message) ==
    IF noFiles THEN fs
    ELSE WriteFile(
           WriteFile(MkDir(fs), [base |-> "eod-summary", dated |-> TRUE,
                          date |-> formatISODate(now), ext |-> "txt"], message),
           [base |-> "eod-summary", dated |-> FALSE, date |-> 0, ext |-> "txt"], message)

(***************************************************************************)
(* JSON.parse of the token text JSON.stringify produces.                   *)
(***************************************************************************)
RECURSIVE ParseValue(_, _)
RECURSIVE ParseArray(_, _, _)
RECURSIVE ParseObject(_, _, _)

\* the value that starts at token i, and the position after it
ParseValue(toks, i) ==
    IF toks[i][1] = "val" THEN [val |-> toks[i][2], pos |-> i + 1]
    ELSE IF toks[i][2] = "[" THEN ParseArray(toks, i + 1, <<>>)
    ELSE ParseObject(toks, i + 1, <<>>)

\* the elements of an array up to its closing bracket
ParseArray(toks, i, acc) ==
    IF toks[i][1] = "p" /\ toks[i][2] = "]" THEN [val |-> acc, pos |-> i + 1]
    ELSE LET r == ParseValue(toks, i)
         IN  ParseArray(toks, r.pos, Append(acc, r.val))

\* the properties of an object up to its closing brace; a repeated key keeps
\* the value read last
ParseObject(toks, i, acc) ==
    IF toks[i][1] = "p" /\ toks[i][2] = "}" THEN [val |-> acc, pos |-> i + 1]
    ELSE LET r == ParseValue(toks, i + 1)
         IN  ParseObject(toks, r.pos, (toks[i][2] :> r.val) @@ acc)

JSONParse(text) == ParseValue(text, 1).val

(***************************************************************************)
(* A Reporter instance whose public methods are called in any order.       *)
(***************************************************************************)
\* commits of the reports: two with the same hash and different timestamps, one other
CommitOld == [hash |-> 1, message |-> "m", author |-> "alice", timestamp |-> 1]

CommitNew == [hash |-> 1, message |-> "m", author |-> "alice", timestamp |-> 2]

CommitOther == [hash |-> 2, message |-> "m", author |-> "bob", timestamp |-> 3]

\* the Contribution lists handed to the Reporter: empty, one repository with
\* commits in ascending order, two repositories with a repeated hash
ReportContributions ==
    { <<>>,
      <<[repo |-> "org/app", commits |-> <<CommitOld, CommitOther>>]>>,
      <<[repo |-> "org/Zeta", commits |-> <<CommitOld, CommitNew>>],
        [repo |-> "org/app", commits |-> <<CommitOther>>]>> }

\* the date strings handed to the Reporter, as day numbers
ReportDates == {2, 3}

ReportFormats == {"txt", "json", "md"}

\* the name of the fixed summary file
LatestSummaryFile == [base |-> "eod-summary", dated |-> FALSE, date |-> 0, ext |-> "txt"]

\* the output directory before the first call: absent, or holding an older summary
InitialFileSystems ==
    {<<>>, WriteFile(MkDir(<<>>), LatestSummaryFile, NoMessage)}

\* what a call of the Reporter leaves alone
ReporterFrame ==
    /\ UNCHANGED <<mPc, env, config, now, pass, fPc, fDate, fRepos, ri, ui, fEvents,
                   mContributions, requests, exitCode>>
    /\ UNCHANGED <<rPc, rCommits, rOnce, rTwice>>
    /\ UNCHANGED notifyVars
    /\ UNCHANGED <<aggVars, eodVars>>

\* reporter.print(contributions, dateStr)
CallPrint ==
    /\ rCount < MaxCalls
    /\ \E c \in ReportContributions, d \in ReportDates :
          /\ console' = Append(console, Printed(c, d))
          /\ rCall' = [NoCall EXCEPT !.op = "print", !.contribs = c, !.date = d]
    /\ rCount' = rCount + 1
    /\ UNCHANGED <<files, rReturned>>
    /\ ReporterFrame

\* reporter.writeToFile(contributions, dateStr, format)
CallWriteToFile ==
    /\ rCount < MaxCalls
    /\ \E c \in ReportContributions, d \in ReportDates, f \in ReportFormats :
          /\ files' = writeToFile(files, config.noFiles, c, d, f)
          /\ rCall' = [NoCall EXCEPT !.op = "writeToFile", !.contribs = c, !.date = d,
                                     !.format = f]
    /\ rCount' = rCount + 1
    /\ UNCHANGED <<console, rReturned>>
    /\ ReporterFrame

\* reporter.generateMinimalEODReport(contributions)
CallGenerateMinimalEODReport ==
    /\ rCount < MaxCalls
    /\ \E c \in ReportContributions :
          /\ rReturned' = generateMinimalEODReport(c)
          /\ rCall' = [NoCall EXCEPT !.op = "generateMinimalEODReport", !.contribs = c]
    /\ rCount' = rCount + 1
    /\ UNCHANGED <<console, files>>
    /\ ReporterFrame

\* reporter.writeMinimalEODReportFile(message), message a summary generated before
CallWriteMinimalEODReportFile ==
    /\ rCount < MaxCalls
    /\ \E c \in ReportContributions :
          LET message == generateMinimalEODReport(c)
          IN  /\ files' = writeMinimalEODReportFile(files, config.noFiles, message)
              /\ rCall' = [NoCall EXCEPT !.op = "writeMinimalEODReportFile",
                                         !.message = message]
    /\ rCount' = rCount + 1
    /\ UNCHANGED <<console, rReturned>>
    /\ ReporterFrame

ReportInit ==
    /\ mPc = "idle"
    /\ \E b \in BOOLEAN : config = [NoConfig EXCEPT !.token = TRUE, !.noFiles = b]
    /\ env = config
    /\ now \in {3 * MsPerDay + 10 * MsPerHour, 4 * MsPerDay + 10 * MsPerHour}
    /\ pass = 1
    /\ FetchIdle
    /\ mContributions = <<>>
    /\ requests = <<>>
    /\ console = <<>>
    /\ files \in InitialFileSystems
    /\ exitCode = -1
    /\ RepIdle
    /\ AggIdle
    /\ EodIdle

ReportNext ==
    \/ CallPrint
    \/ CallWriteToFile
    \/ CallGenerateMinimalEODReport
    \/ CallWriteMinimalEODReportFile

SpecReport == ReportInit /\ [][ReportNext]_vars

(***************************************************************************)
(* main and fetchEvents                                                    *)
(***************************************************************************)
\* prev.setDate(prev.getDate() - 1): the same local time on the previous local day
getPreviousDay(t) == SetHours(t, 0, 0, 0, 0) - MsPerDay + LocalTimeOfDay(t)

\* TARGET_REPOS entries of the model and the number of '/' each holds
SlashCount(r) == IF r = "app" THEN 0 ELSE IF r = "org/app/x" THEN 2 ELSE 1

\* `${prefix}/${r}` with prefix the organisation "org"
WithOrgPrefix(r) == IF r = "app" THEN "org/app" ELSE r

\* isValidFullRepo
isValidFullRepo(r) == SlashCount(r) >= 1 /\ SlashCount(r) + 1 = 2

\* the environments main can start in
Environments ==
    [token : BOOLEAN,
     targetUsers : {<<>>, <<"alice">>},
     targetRepos : {<<>>, <<"org/app">>, <<"app">>},
     organization : BOOLEAN,
     date : {2 * MsPerDay, 3 * MsPerDay + 10 * MsPerHour},
     checkPreviousDay : BOOLEAN,
     noFiles : BOOLEAN,
     output : {"txt", "json"}]

\* what GET /orgs/{org}/repos and GET /user/repos return when they succeed
OrgListings == {<<"org/app">>}

UserListings == {<<"org/app", "org/Zeta">>}

\* commits returned by getCommitsForRepo: sha, commit.message,
\* commit.author.name and author.login
RepoCommitA ==
    [sha |-> <<1, 1>>, message |-> "m", name |-> "alice", hasAuthor |-> TRUE,
     login |-> "alice"]

RepoCommitB ==
    [sha |-> <<2, 1>>, message |-> "m", name |-> "bob", hasAuthor |-> TRUE,
     login |-> "bob"]

RepoCommitLists == {<<>>, <<RepoCommitB>>, <<RepoCommitA, RepoCommitB>>}

\* what GET /users/{user}/events/public returns when it succeeds: nothing, or
\* a push by alice to org/app at noon of day 2
UserEventLists ==
    {<<>>,
     <<[created_at |-> 2 * MsPerDay + 12 * MsPerHour, type |-> "PushEvent",
        repo |-> "org/app", hasCommits |-> TRUE, commits |-> <<PayloadCommitA>>,
        hasActor |-> TRUE, login |-> "alice"]>>}

\* mutant: an array that is pushed to, so a repeated name is kept
AddAllKeepDuplicates(set, list) == set \o list

\* repos.add(r) for every r of list: a Set keeps insertion order, no duplicates
RECURSIVE AddAll(_, _)
AddAll(set, list) ==
    IF list = <<>> THEN set
    ELSE AddAll(IF Includes(set, Head(list)) THEN set ELSE Append(set, Head(list)),
                Tail(list))

\* the explicitly configured repositories that fetchEvents adds
ExplicitRepos == SelectSeq(config.targetRepos, isValidFullRepo)

\* mutant: the synthetic event is stamped with the wall clock
SyntheticEventStampedNow(repo, commits) ==
    [created_at |-> now,
     type |-> "PushEvent",
     repo |-> repo,
     hasCommits |-> TRUE,
     commits |-> [i \in 1..Len(commits) |->
                     [sha |-> commits[i].sha, message |-> commits[i].message,
                      name |-> commits[i].name]],
     hasActor |-> commits[1].hasAuthor,
     login |-> IF commits[1].hasAuthor THEN commits[1].login ELSE ""]

\* the synthetic PushEvent fetchEvents builds from a repository's commits
SyntheticEvent(repo, commits) ==
    [created_at |-> getStartOfDay(fDate),
     type |-> "PushEvent",
     repo |-> repo,
     hasCommits |-> TRUE,
     commits |-> [i \in 1..Len(commits) |->
                     [sha |-> commits[i].sha, message |-> commits[i].message,
                      name |-> commits[i].name]],
     hasActor |-> commits[1].hasAuthor,
     login |-> IF commits[1].hasAuthor THEN commits[1].login ELSE ""]

Request(kind, target, ok) == [pass |-> pass, kind |-> kind, target |-> target, ok |-> ok]

\* loadAppConfig throws: GITHUB_TOKEN is absent; main().catch exits with 1
LoadConfigThrows ==
    /\ mPc = "load"
    /\ ~env.token
    /\ mPc' = "exit"
    /\ exitCode' = 1
    /\ UNCHANGED <<env, config, now, pass, fPc, fDate, fRepos, ri, ui, fEvents,
                   mContributions, requests, console, files>>
    /\ UNCHANGED <<aggVars, repVars, notifyVars, eodVars>>

\* a short repository name and no GITHUB_ORG: main throws, exit 1
ShortNamesThrow ==
    /\ mPc = "load"
    /\ env.token
    /\ \E i \in 1..Len(env.targetRepos) : SlashCount(env.targetRepos[i]) = 0
    /\ ~env.organization
    /\ mPc' = "exit"
    /\ exitCode' = 1
    /\ UNCHANGED <<env, config, now, pass, fPc, fDate, fRepos, ri, ui, fEvents,
                   mContributions, requests, console, files>>
    /\ UNCHANGED <<aggVars, repVars, notifyVars, eodVars>>

\* mutant: short repository names are accepted without an organisation
ConfigLoadedUnchecked ==
    /\ mPc = "load"
    /\ env.token
    /\ config' = [env EXCEPT !.targetRepos =
                     [i \in 1..Len(env.targetRepos) |->
                         IF SlashCount(env.targetRepos[i]) >= 1 THEN env.targetRepos[i]
                         ELSE WithOrgPrefix(env.targetRepos[i])]]
    /\ mPc' = "fetch"
    /\ fPc' = IF env.organization THEN "org" ELSE "user"
    /\ fDate' = env.date
    /\ UNCHANGED <<env, now, pass, fRepos, ri, ui, fEvents, mContributions, requests,
                   console, files, exitCode>>
    /\ UNCHANGED <<aggVars, repVars, notifyVars, eodVars>>

\* the configuration is loaded, short names are prefixed, fetchEvents starts
ConfigLoaded ==
    /\ mPc = "load"
    /\ env.token
    /\ (\E i \in 1..Len(env.targetRepos) : SlashCount(env.targetRepos[i]) = 0)
          => env.organization
    /\ config' = [env EXCEPT !.targetRepos =
                     [i \in 1..Len(env.targetRepos) |->
                         IF SlashCount(env.targetRepos[i]) >= 1 THEN env.targetRepos[i]
                         ELSE WithOrgPrefix(env.targetRepos[i])]]
    /\ mPc' = "fetch"
    /\ fPc' = IF env.organization THEN "org" ELSE "user"
    /\ fDate' = env.date
    /\ UNCHANGED <<env, now, pass, fRepos, ri, ui, fEvents, mContributions, requests,
                   console, files, exitCode>>
    /\ UNCHANGED <<aggVars, repVars, notifyVars, eodVars>>

\* await github.getOrgRepos(org) resolved
OrgReposResolved ==
    /\ mPc = "fetch" /\ fPc = "org"
    /\ \E list \in OrgListings : fRepos' = AddAll(fRepos, list)
    /\ requests' = Append(requests, Request("orgRepos", "org", TRUE))
    /\ fPc' = "user"
    /\ UNCHANGED <<mPc, env, config, now, pass, fDate, ri, ui, fEvents, mContributions,
                   console, files, exitCode>>
    /\ UNCHANGED <<aggVars, repVars, notifyVars, eodVars>>

\* await github.getOrgRepos(org) rejected: warned, skipped
OrgReposRejected ==
    /\ mPc = "fetch" /\ fPc = "org"
    /\ requests' = Append(requests, Request("orgRepos", "org", FALSE))
    /\ fPc' = "user"
    /\ UNCHANGED <<mPc, env, config, now, pass, fDate, fRepos, ri, ui, fEvents,
                   mContributions, console, files, exitCode>>
    /\ UNCHANGED <<aggVars, repVars, notifyVars, eodVars>>

\* await github.getUserRepos() resolved; then the explicit repositories are added
UserReposResolved ==
    /\ mPc = "fetch" /\ fPc = "user"
    /\ \E list \in UserListings : fRepos' = AddAll(AddAll(fRepos, list), ExplicitRepos)
    /\ requests' = Append(requests, Request("userRepos", "user", TRUE))
    /\ fPc' = "repos"
    /\ UNCHANGED <<mPc, env, config, now, pass, fDate, ri, ui, fEvents, mContributions,
                   console, files, exitCode>>
    /\ UNCHANGED <<aggVars, repVars, notifyVars, eodVars>>

\* await github.getUserRepos() rejected; then the explicit repositories are added
UserReposRejected ==
    /\ mPc = "fetch" /\ fPc = "user"
    /\ fRepos' = AddAll(fRepos, ExplicitRepos)
    /\ requests' = Append(requests, Request("userRepos", "user", FALSE))
    /\ fPc' = "repos"
    /\ UNCHANGED <<mPc, env, config, now, pass, fDate, ri, ui, fEvents, mContributions,
                   console, files, exitCode>>
    /\ UNCHANGED <<aggVars, repVars, notifyVars, eodVars>>

\* await github.getCommitsForRepo(repo, ...) resolved with `commits`
RepoCommitsResolved ==
    /\ mPc = "fetch" /\ fPc = "repos"
    /\ ri <= Len(fRepos)
    /\ \E commits \in RepoCommitLists :
          fEvents' = IF Len(commits) > 0
                     THEN Append(fEvents, SyntheticEvent(fRepos[ri], commits))
                     ELSE fEvents
    /\ requests' = Append(requests, Request("commits", fRepos[ri], TRUE))
    /\ ri' = ri + 1
    /\ UNCHANGED <<mPc, env, config, now, pass, fPc, fDate, fRepos, ui, mContributions,
                   console, files, exitCode>>
    /\ UNCHANGED <<aggVars, repVars, notifyVars, eodVars>>

\* await github.getCommitsForRepo(repo, ...) rejected: caught, next repository
RepoCommitsRejected ==
    /\ mPc = "fetch" /\ fPc = "repos"
    /\ ri <= Len(fRepos)
    /\ requests' = Append(requests, Request("commits", fRepos[ri], FALSE))
    /\ ri' = ri + 1
    /\ UNCHANGED <<mPc, env, config, now, pass, fPc, fDate, fRepos, ui, fEvents,
                   mContributions, console, files, exitCode>>
    /\ UNCHANGED <<aggVars, repVars, notifyVars, eodVars>>

\* await github.getUserPublicEvents(user) resolved
UserEventsResolved ==
    /\ mPc = "fetch" /\ fPc = "repos"
    /\ ri > Len(fRepos)
    /\ ui <= Len(config.targetUsers)
    /\ \E evs \in UserEventLists : fEvents' = fEvents \o evs
    /\ requests' = Append(requests, Request("userEvents", config.targetUsers[ui], TRUE))
    /\ ui' = ui + 1
    /\ UNCHANGED <<mPc, env, config, now, pass, fPc, fDate, fRepos, ri, mContributions,
                   console, files, exitCode>>
    /\ UNCHANGED <<aggVars, repVars, notifyVars, eodVars>>

\* await github.getUserPublicEvents(user) rejected: warned, next user
UserEventsRejected ==
    /\ mPc = "fetch" /\ fPc = "repos"
    /\ ri > Len(fRepos)
    /\ ui <= Len(config.targetUsers)
    /\ requests' = Append(requests, Request("userEvents", config.targetUsers[ui], FALSE))
    /\ ui' = ui + 1
    /\ UNCHANGED <<mPc, env, config, now, pass, fPc, fDate, fRepos, ri, fEvents,
                   mContributions, console, files, exitCode>>
    /\ UNCHANGED <<aggVars, repVars, notifyVars, eodVars>>

\* fetchEvents returns; main constructs the EODProcessor for the pass's date
FetchReturns ==
    /\ mPc = "fetch" /\ fPc = "repos"
    /\ ri > Len(fRepos)
    /\ ui > Len(config.targetUsers)
    /\ eDate' = fDate
    /\ eTargetRepos' = config.targetRepos
    /\ eTargetUsers' = config.targetUsers
    /\ events' = fEvents
    /\ filteredEvents' = <<>>
    /\ contributions' = <<>>
    /\ pPc' = "ready"
    /\ mPc' = "process"
    /\ UNCHANGED <<tz, dPc, dEvent, dInRange>>
    /\ UNCHANGED <<env, config, now, pass, fPc, fDate, fRepos, ri, ui, fEvents,
                   mContributions, requests, console, files, exitCode>>
    /\ UNCHANGED <<aggVars, repVars, notifyVars>>

\* mutant: the fallback report is labelled with the target date
ReportDateAlwaysTarget == formatISODate(config.date)

\* the date string of the report: dateStr, or altDateStr in the previous-day pass
ReportDate ==
    IF pass = 2 THEN formatISODate(getPreviousDay(config.date))
    ELSE formatISODate(config.date)

\* mutant: the previous-day pass starts whether or not checkPreviousDay is set
StartFallbackUnconditional ==
    /\ mPc = "process" /\ pPc = "done"
    /\ pass = 1
    /\ Len(contributions) = 0
    /\ mContributions' = contributions
    /\ pass' = 2
    /\ mPc' = "fetch"
    /\ fPc' = IF config.organization THEN "org" ELSE "user"
    /\ fDate' = getPreviousDay(config.date)
    /\ fRepos' = <<>>
    /\ ri' = 1
    /\ ui' = 1
    /\ fEvents' = <<>>
    /\ UNCHANGED <<env, config, now, requests, console, files, exitCode>>
    /\ UNCHANGED <<aggVars, repVars, notifyVars, eodVars>>

\* the first pass found nothing and checkPreviousDay is set: fetchEvents(prevDate)
StartFallback ==
    /\ mPc = "process" /\ pPc = "done"
    /\ pass = 1
    /\ Len(contributions) = 0
    /\ config.checkPreviousDay
    /\ mContributions' = contributions
    /\ pass' = 2
    /\ mPc' = "fetch"
    /\ fPc' = IF config.organization THEN "org" ELSE "user"
    /\ fDate' = getPreviousDay(config.date)
    /\ fRepos' = <<>>
    /\ ri' = 1
    /\ ui' = 1
    /\ fEvents' = <<>>
    /\ UNCHANGED <<env, config, now, requests, console, files, exitCode>>
    /\ UNCHANGED <<aggVars, repVars, notifyVars, eodVars>>

\* the pass found contributions: print, writeToFile, summary, summary file
Report ==
    /\ mPc = "process" /\ pPc = "done"
    /\ Len(contributions) > 0
    /\ console' = Append(console, Printed(contributions, ReportDate))
    /\ files' = writeMinimalEODReportFile(
                   writeToFile(files, config.noFiles, contributions, ReportDate, "txt"),
                   config.noFiles, generateMinimalEODReport(contributions))
    /\ mContributions' = IF pass = 1 THEN contributions ELSE mContributions
    /\ mPc' = "exit"
    /\ exitCode' = 0
    /\ UNCHANGED <<env, config, now, pass, fPc, fDate, fRepos, ri, ui, fEvents, requests>>
    /\ UNCHANGED <<aggVars, repVars, notifyVars, eodVars>>

\* mutant: a run that found nothing still writes a summary
NoContributionsWritesSummary ==
    /\ mPc = "process" /\ pPc = "done"
    /\ Len(contributions) = 0
    /\ pass = 2 \/ ~config.checkPreviousDay
    /\ files' = writeMinimalEODReportFile(files, config.noFiles,
                                           generateMinimalEODReport(contributions))
    /\ mContributions' = IF pass = 1 THEN contributions ELSE mContributions
    /\ mPc' = "exit"
    /\ exitCode' = 0
    /\ UNCHANGED <<env, config, now, pass, fPc, fDate, fRepos, ri, ui, fEvents, requests,
                   console>>
    /\ UNCHANGED <<aggVars, repVars, notifyVars, eodVars>>

\* nothing found (and no fallback left): "No contributions found", exit 0
NoContributions ==
    /\ mPc = "process" /\ pPc = "done"
    /\ Len(contributions) = 0
    /\ pass = 2 \/ ~config.checkPreviousDay
    /\ mContributions' = IF pass = 1 THEN contributions ELSE mContributions
    /\ mPc' = "exit"
    /\ exitCode' = 0
    /\ UNCHANGED <<env, config, now, pass, fPc, fDate, fRepos, ri, ui, fEvents, requests,
                   console, files>>
    /\ UNCHANGED <<aggVars, repVars, notifyVars, eodVars>>

MainInit ==
    /\ mPc = "load"
    /\ env \in Environments
    /\ config = NoConfig
    /\ now = 3 * MsPerDay + 10 * MsPerHour
    /\ pass = 1
    /\ FetchIdle
    /\ mContributions = <<>>
    /\ requests = <<>>
    /\ console = <<>>
    /\ files = <<>>
    /\ exitCode = -1
    /\ tz \in {0, 0 - 5 * MsPerHour}
    /\ eDate = 0
    /\ eTargetRepos = <<>>
    /\ eTargetUsers = <<>>
    /\ DateCheckIdle
    /\ ProcessIdle
    /\ AggIdle
    /\ RepIdle

MainNext ==
    \/ LoadConfigThrows
    \/ ShortNamesThrow
    \/ ConfigLoaded
    \/ OrgReposResolved
    \/ OrgReposRejected
    \/ UserReposResolved
    \/ UserReposRejected
    \/ RepoCommitsResolved
    \/ RepoCommitsRejected
    \/ UserEventsResolved
    \/ UserEventsRejected
    \/ FetchReturns
    \/ Process
    \/ StartFallback
    \/ Report
    \/ NoContributions

SpecMain == MainInit /\ [][MainNext]_vars

(***************************************************************************)
(* A run with a valid configuration, with every await of fetchEvents and   *)
(* of getCommitsForRepo split into the call that issues the request and    *)
(* the continuation that runs when the request settles.  `requests` holds  *)
(* one entry per request: pending while it is outstanding, then ok or      *)
(* failed together with the data it returned.                              *)
(***************************************************************************)
\* the values of maxBranches handed to fetchEvents
FetchCaps == {1, 2}

\* what GET /repos/{owner}/{repo}/branches returns when it succeeds
FetchBranchListings == {<<>>, <<"main">>, <<"feature-a", "main", "feature-b">>}

\* the valid configurations of the runs followed request by request
FetchConfigs ==
    {c \in Environments :
        /\ c.token
        /\ c.targetUsers = <<>>
        /\ c.targetRepos = <<>>
        /\ c.date = 2 * MsPerDay
        /\ ~c.checkPreviousDay
        /\ ~c.noFiles
        /\ c.output = "txt"}

\* TARGET_USERS of these runs
FetchUserLists == {<<>>, <<"alice", "bob">>}

\* TARGET_REPOS of these runs: none, or an entry with two '/' followed by a
\* full name
FetchRepoLists == {<<>>, <<"org/app/x", "org/app">>}

\* a request that has been issued and has not settled
Pending(kind, target, branch) ==
    [pass |-> pass, kind |-> kind, target |-> target, branch |-> branch,
     state |-> "pending", data |-> <<>>]

\* the outstanding request (the last one issued) settles
Settle(log, state, data) ==
    [log EXCEPT ![Len(log)] = [@ EXCEPT !.state = state, !.data = data]]

\* getCommitsForRepo is left: its locals are gone
AggReset ==
    /\ gPc' = "idle"
    /\ repoBranches' = <<>>
    /\ branches' = <<>>
    /\ bi' = 1
    /\ allCommits' = <<>>
    /\ processedCommits' = {}
    /\ UNCHANGED <<maxBranches, reqLog>>

\* the variables of main that fetchEvents never touches
FetchFrame ==
    /\ UNCHANGED <<mPc, env, config, now, pass, fDate, mContributions, console, files,
                   exitCode>>
    /\ UNCHANGED <<repVars, notifyVars, eodVars>>

\* github.getOrgRepos(org) is called: GET /orgs/{org}/repos is issued
OrgReposCall ==
    /\ mPc = "fetch" /\ fPc = "org"
    /\ requests' = Append(requests, Pending("orgRepos", "org", ""))
    /\ fPc' = "orgWait"
    /\ UNCHANGED <<fRepos, ri, ui, fEvents>>
    /\ UNCHANGED aggVars
    /\ FetchFrame

\* the organisation listing resolved: orgRepos.forEach((r) => repos.add(r))
OrgReposOk ==
    /\ mPc = "fetch" /\ fPc = "orgWait"
    /\ \E list \in OrgListings :
          /\ fRepos' = AddAll(fRepos, list)
          /\ requests' = Settle(requests, "ok", list)
    /\ fPc' = "user"
    /\ UNCHANGED <<ri, ui, fEvents>>
    /\ UNCHANGED aggVars
    /\ FetchFrame

\* the organisation listing rejected: caught, warned
OrgReposFailed ==
    /\ mPc = "fetch" /\ fPc = "orgWait"
    /\ requests' = Settle(requests, "failed", <<>>)
    /\ fPc' = "user"
    /\ UNCHANGED <<fRepos, ri, ui, fEvents>>
    /\ UNCHANGED aggVars
    /\ FetchFrame

\* github.getUserRepos() is called: GET /user/repos is issued
UserReposCall ==
    /\ mPc = "fetch" /\ fPc = "user"
    /\ requests' = Append(requests, Pending("userRepos", "user", ""))
    /\ fPc' = "userWait"
    /\ UNCHANGED <<fRepos, ri, ui, fEvents>>
    /\ UNCHANGED aggVars
    /\ FetchFrame

\* the account listing resolved; then the explicit repositories are added
UserReposOk ==
    /\ mPc = "fetch" /\ fPc = "userWait"
    /\ \E list \in UserListings :
          /\ fRepos' = AddAll(AddAll(fRepos, list), ExplicitRepos)
          /\ requests' = Settle(requests, "ok", list)
    /\ fPc' = "repos"
    /\ UNCHANGED <<ri, ui, fEvents>>
    /\ UNCHANGED aggVars
    /\ FetchFrame

\* the account listing rejected: caught; then the explicit repositories are added
UserReposFailed ==
    /\ mPc = "fetch" /\ fPc = "userWait"
    /\ fRepos' = AddAll(fRepos, ExplicitRepos)
    /\ requests' = Settle(requests, "failed", <<>>)
    /\ fPc' = "repos"
    /\ UNCHANGED <<ri, ui, fEvents>>
    /\ UNCHANGED aggVars
    /\ FetchFrame

\* getCommitsForRepo(repo, ...) is called for the next repository of the loop:
\* getBranchesForRepo issues GET /repos/{owner}/{repo}/branches
BranchesCall ==
    /\ mPc = "fetch" /\ fPc = "repos"
    /\ ri <= Len(fRepos)
    /\ gPc = "idle"
    /\ requests' = Append(requests, Pending("branches", fRepos[ri], ""))
    /\ gPc' = "branchesWait"
    /\ UNCHANGED <<fPc, fRepos, ri, ui, fEvents>>
    /\ UNCHANGED <<maxBranches, repoBranches, branches, bi, reqLog, allCommits,
                   processedCommits>>
    /\ FetchFrame

\* the branch listing resolved: the branches are sampled, the loop starts
BranchesOk ==
    /\ mPc = "fetch" /\ gPc = "branchesWait"
    /\ \E list \in FetchBranchListings :
          /\ repoBranches' = list
          /\ branches' = SampleBranches(list, maxBranches)
          /\ requests' = Settle(requests, "ok", list)
    /\ gPc' = "loop"
    /\ UNCHANGED <<fPc, fRepos, ri, ui, fEvents>>
    /\ UNCHANGED <<maxBranches, bi, reqLog, allCommits, processedCommits>>
    /\ FetchFrame

\* mutant: a rejected branch listing is not caught by fetchEvents
BranchesFailedAborts ==
    /\ mPc = "fetch" /\ gPc = "branchesWait"
    /\ requests' = Settle(requests, "failed", <<>>)
    /\ mPc' = "exit"
    /\ exitCode' = 1
    /\ AggReset
    /\ UNCHANGED <<fPc, fRepos, ri, ui, fEvents>>
    /\ UNCHANGED <<env, config, now, pass, fDate, mContributions, console, files>>
    /\ UNCHANGED <<repVars, notifyVars, eodVars>>

\* the branch listing rejected: getCommitsForRepo throws, the catch of
\* fetchEvents' loop takes it, next repository
BranchesFailed ==
    /\ mPc = "fetch" /\ gPc = "branchesWait"
    /\ requests' = Settle(requests, "failed", <<>>)
    /\ ri' = ri + 1
    /\ AggReset
    /\ UNCHANGED <<fPc, fRepos, ui, fEvents>>
    /\ FetchFrame

\* mutant: the commit request is issued and the loop goes on without awaiting it
CommitsCallNotAwaited ==
    /\ mPc = "fetch" /\ gPc = "loop"
    /\ bi <= Len(branches)
    /\ requests' = Append(requests, Pending("commits", fRepos[ri], branches[bi]))
    /\ bi' = bi + 1
    /\ UNCHANGED <<fPc, fRepos, ri, ui, fEvents>>
    /\ UNCHANGED <<gPc, maxBranches, repoBranches, branches, reqLog, allCommits,
                   processedCommits>>
    /\ FetchFrame

\* the for loop reaches the next branch: GET /repos/{owner}/{repo}/commits is issued
CommitsCall ==
    /\ mPc = "fetch" /\ gPc = "loop"
    /\ bi <= Len(branches)
    /\ requests' = Append(requests, Pending("commits", fRepos[ri], branches[bi]))
    /\ gPc' = "commitsWait"
    /\ UNCHANGED <<fPc, fRepos, ri, ui, fEvents>>
    /\ UNCHANGED <<maxBranches, repoBranches, branches, bi, reqLog, allCommits,
                   processedCommits>>
    /\ FetchFrame

\* the commit request resolved: the unseen commits are pushed, next branch
CommitsOk ==
    /\ mPc = "fetch" /\ gPc = "commitsWait"
    /\ \E page \in RepoCommitLists :
          LET acc == MergePage([all |-> allCommits, seen |-> processedCommits], page)
          IN  /\ allCommits' = acc.all
              /\ processedCommits' = acc.seen
              /\ requests' = Settle(requests, "ok", page)
    /\ bi' = bi + 1
    /\ gPc' = "loop"
    /\ UNCHANGED <<fPc, fRepos, ri, ui, fEvents>>
    /\ UNCHANGED <<maxBranches, repoBranches, branches, reqLog>>
    /\ FetchFrame

\* the commit request rejected: caught inside the loop, next branch
CommitsFailed ==
    /\ mPc = "fetch" /\ gPc = "commitsWait"
    /\ requests' = Settle(requests, "failed", <<>>)
    /\ bi' = bi + 1
    /\ gPc' = "loop"
    /\ UNCHANGED <<fPc, fRepos, ri, ui, fEvents>>
    /\ UNCHANGED <<maxBranches, repoBranches, branches, reqLog, allCommits,
                   processedCommits>>
    /\ FetchFrame

\* getCommitsForRepo returns allCommits; fetchEvents pushes the synthetic
\* event when there is a commit, next repository
CommitsReturned ==
    /\ mPc = "fetch" /\ gPc = "loop"
    /\ bi > Len(branches)
    /\ fEvents' = IF Len(allCommits) > 0
                  THEN Append(fEvents, SyntheticEvent(fRepos[ri], allCommits))
                  ELSE fEvents
    /\ ri' = ri + 1
    /\ AggReset
    /\ UNCHANGED <<fPc, fRepos, ui, requests>>
    /\ FetchFrame

\* github.getUserPublicEvents(user) is called for the next user
UserEventsCall ==
    /\ mPc = "fetch" /\ fPc = "repos"
    /\ ri > Len(fRepos)
    /\ ui <= Len(config.targetUsers)
    /\ requests' = Append(requests, Pending("userEvents", config.targetUsers[ui], ""))
    /\ fPc' = "eventsWait"
    /\ UNCHANGED <<fRepos, ri, ui, fEvents>>
    /\ UNCHANGED aggVars
    /\ FetchFrame

\* the user's events resolved: events.push(...userEvents), next user
UserEventsOk ==
    /\ mPc = "fetch" /\ fPc = "eventsWait"
    /\ \E evs \in UserEventLists :
          /\ fEvents' = fEvents \o evs
          /\ requests' = Settle(requests, "ok", evs)
    /\ ui' = ui + 1
    /\ fPc' = "repos"
    /\ UNCHANGED <<fRepos, ri>>
    /\ UNCHANGED aggVars
    /\ FetchFrame

\* the user's events rejected: caught, warned, next user
UserEventsFailed ==
    /\ mPc = "fetch" /\ fPc = "eventsWait"
    /\ requests' = Settle(requests, "failed", <<>>)
    /\ ui' = ui + 1
    /\ fPc' = "repos"
    /\ UNCHANGED <<fRepos, ri, fEvents>>
    /\ UNCHANGED aggVars
    /\ FetchFrame

FetchInit ==
    /\ mPc = "fetch"
    /\ \E c \in FetchConfigs, users \in FetchUserLists, repos \in FetchRepoLists :
          /\ env = [c EXCEPT !.targetUsers = users, !.targetRepos = repos]
          /\ config = env
    /\ now = 3 * MsPerDay + 10 * MsPerHour
    /\ pass = 1
    /\ fPc = IF config.organization THEN "org" ELSE "user"
    /\ fDate = config.date
    /\ fRepos = <<>>
    /\ ri = 1
    /\ ui = 1
    /\ fEvents = <<>>
    /\ mContributions = <<>>
    /\ requests = <<>>
    /\ console = <<>>
    /\ files = <<>>
    /\ exitCode = -1
    /\ gPc = "idle"
    /\ maxBranches \in FetchCaps
    /\ repoBranches = <<>>
    /\ branches = <<>>
    /\ bi = 1
    /\ reqLog = <<>>
    /\ allCommits = <<>>
    /\ processedCommits = {}
    /\ EodIdle
    /\ RepIdle

FetchNext ==
    \/ OrgReposCall
    \/ OrgReposOk
    \/ OrgReposFailed
    \/ UserReposCall
    \/ UserReposOk
    \/ UserReposFailed
    \/ BranchesCall
    \/ BranchesOk
    \/ BranchesFailed
    \/ CommitsCall
    \/ CommitsOk
    \/ CommitsFailed
    \/ CommitsReturned
    \/ UserEventsCall
    \/ UserEventsOk
    \/ UserEventsFailed
    \/ FetchReturns
    \/ Process
    \/ Report
    \/ NoContributions

SpecFetch == FetchInit /\ [][FetchNext]_vars

(***************************************************************************)
(* Claims about getCommitsForRepo (checked under SpecAgg).                 *)
(***************************************************************************)
\* the branches of the commit requests issued so far, in order
RequestedBranches == [i \in 1..Len(reqLog) |-> reqLog[i].branch]

\* the pages of the successful requests, concatenated in request order
RECURSIVE OkCommits(_)
OkCommits(log) ==
    IF log = <<>> THEN <<>>
    ELSE LET last == log[Len(log)]
         IN  OkCommits(SubSeq(log, 1, Len(log) - 1)) \o (IF last.ok THEN last.data ELSE <<>>)

\* reference merge: every occurrence of a sha after its first is removed
RECURSIVE KeepFirstBySha(_)
KeepFirstBySha(s) ==
    IF s = <<>> THEN <<>>
    ELSE LET r == KeepFirstBySha(SubSeq(s, 1, Len(s) - 1))
             c == s[Len(s)]
         IN  IF \E i \in 1..Len(r) : r[i].sha = c.sha THEN r ELSE Append(r, c)

\* C1: the list built by getCommitsForRepo never holds two entries with the
\* same full SHA, and every commit returned by a successfully fetched branch
\* is in it (so a commit returned by several branches appears exactly once).
C1_NoDuplicateSha ==
    /\ \A i, j \in 1..Len(allCommits) :
          allCommits[i].sha = allCommits[j].sha => i = j
    /\ \A r \in 1..Len(reqLog) :
          reqLog[r].ok =>
             \A k \in 1..Len(reqLog[r].data) :
                \E i \in 1..Len(allCommits) : allCommits[i].sha = reqLog[r].data[k].sha

\* C1 witness: the call returned after two different branches returned the same sha
C1_Witness ==
    /\ gPc = "done"
    /\ \E r1, r2 \in 1..Len(reqLog) :
          /\ r1 < r2
          /\ reqLog[r1].ok /\ reqLog[r2].ok
          /\ \E k1 \in 1..Len(reqLog[r1].data), k2 \in 1..Len(reqLog[r2].data) :
                reqLog[r1].data[k1].sha = reqLog[r2].data[k2].sha

\* C2: a failing commit request never makes getCommitsForRepo throw; every
\* sampled branch is requested, in order, whatever failed before it; and the
\* result is the deduplicated merge of the pages of the branches that
\* succeeded (empty when all fail).
C2_BranchFailuresSkipped ==
    /\ gPc = "threw" => reqLog = <<>>
    /\ gPc = "loop" => RequestedBranches = SubSeq(branches, 1, bi - 1)
    /\ gPc = "done" =>
          /\ RequestedBranches = branches
          /\ allCommits = KeepFirstBySha(OkCommits(reqLog))
          /\ (\A r \in 1..Len(reqLog) : ~reqLog[r].ok) => allCommits = <<>>

\* C2 witness: a branch failed, a later branch was still requested and its
\* commits are in the returned list
C2_Witness ==
    /\ gPc = "done"
    /\ \E r1, r2 \in 1..Len(reqLog) :
          /\ r1 < r2
          /\ ~reqLog[r1].ok
          /\ reqLog[r2].ok /\ reqLog[r2].data # <<>>
    /\ allCommits # <<>>

\* reference branch sampling policy of the specification
RefSample(list, cap) ==
    IF Len(list) <= cap THEN list
    ELSE LET defaults == Range(list) \cap {"main", "master"}
         IN  IF defaults = {} THEN SubSeq(list, 1, cap)
             ELSE LET d == CHOOSE b \in defaults : TRUE
                      rest == SelectSeq(list, LAMBDA b : b # d)
                  IN  <<d>> \o SubSeq(rest, 1, Min(cap - 1, Len(rest)))

BothDefaultsOverCap ==
    /\ gPc \in {"loop", "done"}
    /\ Len(repoBranches) > maxBranches
    /\ {"main", "master"} \subseteq Range(repoBranches)

\* C9 as claimed: when the listing exceeds the cap and holds both main and
\* master, main is the one retained, whatever their order in the listing.
C9_MainPreferred ==
    BothDefaultsOverCap =>
       ("main" \in Range(branches) /\ "master" \notin Range(branches))

\* C9 amended: when the listing exceeds the cap and holds both main and
\* master, exactly one of them is retained, as the first sampled branch, and
\* it is the one that comes first in the listing.
C9_FirstListedDefaultKept ==
    BothDefaultsOverCap =>
       LET im == CHOOSE i \in 1..Len(repoBranches) : repoBranches[i] = "main"
           is == CHOOSE i \in 1..Len(repoBranches) : repoBranches[i] = "master"
           first == IF im < is THEN "main" ELSE "master"
       IN  /\ branches # <<>>
           /\ branches[1] = first
           /\ \A i \in 2..Len(branches) : ~IsDefaultBranch(branches[i])

\* C9 witness: master is listed before main, over the cap, and master was queried
C9_Witness ==
    /\ BothDefaultsOverCap
    /\ gPc = "done"
    /\ \E i, j \in 1..Len(repoBranches) :
          i < j /\ repoBranches[i] = "master" /\ repoBranches[j] = "main"
    /\ reqLog # <<>>
    /\ reqLog[1].branch = "master"

(***************************************************************************)
(* Claims about Reporter.sortAndDedup (checked under SpecReporter).        *)
(***************************************************************************)
\* C3: sortAndDedup is idempotent: applied to its own result it returns that
\* result unchanged, as a sequence.
C3_SortAndDedupIdempotent ==
    rPc = "twice" => rTwice = rOnce

\* C4: for each truncated hash, the commit sortAndDedup retains is the one
\* with the most recent timestamp among the input commits with that hash.
C4_KeepsMostRecent ==
    rPc \in {"once", "twice"} =>
       \A i \in 1..Len(rOnce) :
          \A k \in 1..Len(rCommits) :
             rCommits[k].hash = rOnce[i].hash =>
                rCommits[k].timestamp <= rOnce[i].timestamp

(***************************************************************************)
(* Claims about the date filter (checked under SpecDate).                  *)
(***************************************************************************)
\* the local calendar day (a day number) an instant falls on
LocalDayOf(t) == (t + tz) \div MsPerDay

\* first and last millisecond of the local calendar day of the configured date
DayFirstMs == LocalDayOf(eDate) * MsPerDay - tz

DayLastMs == (LocalDayOf(eDate) + 1) * MsPerDay - tz - 1

\* C5: the date filter is inclusive on both ends: an event at exactly
\* 00:00:00.000 or exactly 23:59:59.999 local time of the configured day passes
\* the date check, an event one millisecond before the former or one
\* millisecond after the latter does not; in general an event passes exactly
\* when it falls on the local calendar day of the configured date.
C5_DateFilterInclusive ==
    dPc = "done" =>
       /\ dEvent = DayFirstMs => dInRange
       /\ dEvent = DayLastMs => dInRange
       /\ dEvent = DayFirstMs - 1 => ~dInRange
       /\ dEvent = DayLastMs + 1 => ~dInRange
       /\ dInRange <=> LocalDayOf(dEvent) = LocalDayOf(eDate)

\* C5 witness: an event at the last millisecond of the day, in a zone other
\* than UTC, was checked and passed
C5_Witness ==
    /\ dPc = "done"
    /\ tz # 0
    /\ dEvent = DayLastMs
    /\ dInRange

(***************************************************************************)
(* Claims about EODProcessor.process (checked under SpecProcess).          *)
(***************************************************************************)
\* the four conditions of the specification's event filter
QualifiesByType(e) == e.type = "PushEvent"

QualifiesByDate(e) == LocalDayOf(e.created_at) = LocalDayOf(eDate)

QualifiesByRepo(e) == eTargetRepos = <<>> \/ e.repo \in Range(eTargetRepos)

QualifiesByUser(e) ==
    \/ eTargetUsers = <<>>
    \/ (e.hasCommits /\ \E c \in Range(e.commits) : c.name \in Range(eTargetUsers))
    \/ (e.hasActor /\ e.login \in Range(eTargetUsers))

Qualifies(e) ==
    QualifiesByType(e) /\ QualifiesByDate(e) /\ QualifiesByRepo(e) /\ QualifiesByUser(e)

\* commit c of the output stems from payload commit pc of event e
StemsFrom(c, pc, e) ==
    /\ c.hash = pc.sha[1]
    /\ c.message = pc.message
    /\ c.author = pc.name
    /\ c.timestamp = e.created_at

\* the commits of the Contribution of repository r (empty when there is none)
CommitsOfRepo(r) ==
    IF \E k \in 1..Len(contributions) : contributions[k].repo = r
    THEN contributions[CHOOSE k \in 1..Len(contributions) : contributions[k].repo = r].commits
    ELSE <<>>

\* C6: an event passes the event-level filter exactly when it is a PushEvent,
\* falls on the target day, matches the target repositories (or there are
\* none) and matches the target users by a commit author or by its actor login
\* (or there are none); every commit of the output stems from an event that
\* passes.
C6_EventFilter ==
    pPc = "done" =>
       /\ filteredEvents = SelectSeq(events, Qualifies)
       /\ \A k \in 1..Len(contributions) :
             \A i \in 1..Len(contributions[k].commits) :
                \E j \in 1..Len(events) :
                   /\ Qualifies(events[j])
                   /\ events[j].repo = contributions[k].repo
                   /\ events[j].hasCommits
                   /\ \E pc \in Range(events[j].commits) :
                         StemsFrom(contributions[k].commits[i], pc, events[j])

\* C6 witness: one event passed through its actor login alone, and another
\* that fails only the date check was dropped
C6_Witness ==
    /\ pPc = "done"
    /\ eTargetUsers # <<>>
    /\ eTargetRepos # <<>>
    /\ \E j \in 1..Len(events) :
          /\ events[j] \in Range(filteredEvents)
          /\ events[j].hasActor /\ events[j].login \in Range(eTargetUsers)
          /\ \A c \in Range(events[j].commits) : c.name \notin Range(eTargetUsers)
    /\ \E j \in 1..Len(events) :
          /\ events[j] \notin Range(filteredEvents)
          /\ QualifiesByType(events[j]) /\ QualifiesByRepo(events[j])
          /\ QualifiesByUser(events[j])

\* the payload commits of qualifying events of repository r that the author
\* filter lets through, as <<event index, commit index>> pairs
KeptPayloadCommits(r) ==
    {p \in UNION {{<<j, n>> : n \in 1..Len(events[j].commits)} : j \in 1..Len(events)} :
        /\ Qualifies(events[p[1]])
        /\ events[p[1]].repo = r
        /\ events[p[1]].hasCommits
        /\ (eTargetUsers = <<>>
            \/ events[p[1]].commits[p[2]].name \in Range(eTargetUsers))}

\* C7: with target users set, every commit of every returned Contribution has
\* an author among them and every commit of a qualifying event whose author
\* is among them is present; with no target users, every commit of every
\* qualifying event is present.  Nothing else is in the output.
C7_AuthorFilter ==
    pPc = "done" =>
       /\ eTargetUsers # <<>> =>
             \A k \in 1..Len(contributions) :
                \A c \in Range(contributions[k].commits) : c.author \in Range(eTargetUsers)
       /\ \A r \in RepoNames :
             /\ \A p \in KeptPayloadCommits(r) :
                   \E c \in Range(CommitsOfRepo(r)) :
                      StemsFrom(c, events[p[1]].commits[p[2]], events[p[1]])
             /\ Len(CommitsOfRepo(r)) = Cardinality(KeptPayloadCommits(r))

\* C7 witness: targetUsers = [alice], a qualifying event carries a commit of
\* alice and a commit of bob, and its Contribution holds alice's commit only
C7_Witness ==
    /\ pPc = "done"
    /\ eTargetUsers = <<"alice">>
    /\ Len(events) = 1
    /\ events[1].commits = <<PayloadCommitA, PayloadCommitB>>
    /\ Len(contributions) = 1
    /\ contributions[1].commits = <<ToCommit(PayloadCommitA, events[1])>>

\* C7 witness for the empty list: no target users, and a commit of bob is reported
C7_WitnessAllAuthors ==
    /\ pPc = "done"
    /\ eTargetUsers = <<>>
    /\ \E k \in 1..Len(contributions) :
          \E c \in Range(contributions[k].commits) : c.author = "bob"

(***************************************************************************)
(* Claims about main (checked under SpecMain).                             *)
(***************************************************************************)
\* the name of the full report file of date string d
ContributionsFile(d) ==
    [base |-> "contributions", dated |-> TRUE, date |-> d, ext |-> "txt"]

\* a rendered body shows the Contributions of `contribs`: the same
\* repositories in the same order, each with commits of that Contribution
\* only and with every hash of that Contribution
Shows(body, contribs) ==
    /\ Len(body) = Len(contribs)
    /\ \A k \in 1..Len(contribs) :
          /\ body[k].repo = contribs[k].repo
          /\ Range(body[k].commits) \subseteq Range(contribs[k].commits)
          /\ {c.hash : c \in Range(body[k].commits)}
                = {c.hash : c \in Range(contribs[k].commits)}

\* the run has ended after a previous-day pass that found contributions
FallbackReported ==
    /\ mPc = "exit"
    /\ exitCode = 0
    /\ pass = 2
    /\ Len(contributions) > 0

\* C10: when the pass for the target date D found nothing, checkPreviousDay is
\* set and the pass for the previous day found contributions, the run prints
\* one report, titled with the date string of the day before D and not with
\* that of D, showing exactly the contributions of the previous-day pass; the
\* contributions file (when files are written) has that date in its name and
\* title and shows the same contributions, and no file is written for D.
C10_FallbackReport ==
    FallbackReported =>
       LET prev == formatISODate(config.date) - 1
       IN  /\ mContributions = <<>>
           /\ config.checkPreviousDay
           /\ eDate = config.date - MsPerDay
           /\ Len(console) = 1
           /\ console[1].title = prev
           /\ console[1].title # formatISODate(config.date)
           /\ Shows(console[1].body, contributions)
           /\ \A n \in DOMAIN files : n.base = "contributions" => n = ContributionsFile(prev)
           /\ ~config.noFiles =>
                 /\ ContributionsFile(prev) \in DOMAIN files
                 /\ files[ContributionsFile(prev)].title = prev
                 /\ Shows(files[ContributionsFile(prev)].body, contributions)
           /\ config.noFiles => files = <<>>

\* C10 witness: a run west of UTC fell back to the previous day and wrote its report
C10_Witness ==
    /\ FallbackReported
    /\ tz # 0
    /\ ~config.noFiles
    /\ ContributionsFile(formatISODate(config.date) - 1) \in DOMAIN files

\* the pass for the target date has completed with zero contributions and
\* checkPreviousDay is set
FallbackDue ==
    /\ mPc = "process" /\ pPc = "done"
    /\ pass = 1
    /\ Len(contributions) = 0
    /\ config.checkPreviousDay

\* C11: the previous-day pass is executed if and only if the pass for the
\* target date has completed with zero contributions and checkPreviousDay is
\* true: the pass number only ever changes from 1 to 2, in exactly that
\* situation, and in that situation nothing else can happen; a second pass is
\* for the day before the target date (never D-2); and every remote request is
\* logged under the pass running when it completes, so that no request of the
\* first pass follows a request of the fallback pass.
C11_FallbackIffOnce ==
    [][/\ pass' # pass => (FallbackDue /\ pass' = 2 /\ requests' = requests
                            /\ fDate' = config.date - MsPerDay)
       /\ FallbackDue => (pass' = 2 /\ mPc' = "fetch")
       /\ requests' # requests =>
             /\ Len(requests') = Len(requests) + 1
             /\ SubSeq(requests', 1, Len(requests)) = requests
             /\ requests'[Len(requests')].pass = pass
             /\ pass' = pass
             /\ \A i \in 1..Len(requests) : requests[i].pass <= pass
       /\ (mPc = "exit" /\ pass = 2) => fDate = config.date - MsPerDay]_vars

\* C11 witness: the fallback pass ran after the first pass and also found
\* nothing; both passes issued requests and the run ended successfully
C11_Witness ==
    /\ mPc = "exit"
    /\ exitCode = 0
    /\ pass = 2
    /\ config.checkPreviousDay
    /\ contributions = <<>>
    /\ \E i, j \in 1..Len(requests) :
          i < j /\ requests[i].pass = 1 /\ requests[j].pass = 2

\* GITHUB_TOKEN is absent, or a TARGET_REPOS entry has no '/' and GITHUB_ORG is unset
FatalConfiguration ==
    \/ ~env.token
    \/ /\ \E i \in 1..Len(env.targetRepos) : SlashCount(env.targetRepos[i]) = 0
       /\ ~env.organization

\* C12: with GITHUB_TOKEN absent, or a TARGET_REPOS entry without '/' and no
\* GITHUB_ORG, the run never leaves configuration loading except to exit, it
\* exits with a non-zero code, and no remote request is issued at any point.
C12_FatalConfigBeforeNetwork ==
    FatalConfiguration =>
       /\ requests = <<>>
       /\ mPc \in {"load", "exit"}
       /\ mPc = "exit" <=> exitCode > 0
       /\ mPc = "load" <=> exitCode = -1
       /\ console = <<>> /\ files = <<>>

\* C12 witness: TARGET_REPOS=app with a token and no GITHUB_ORG ended with exit code 1
C12_Witness ==
    /\ mPc = "exit"
    /\ exitCode = 1
    /\ env.token
    /\ ~env.organization
    /\ env.targetRepos = <<"app">>
    /\ requests = <<>>

(***************************************************************************)
(* Claims about a run followed request by request (checked under           *)
(* SpecFetch).                                                             *)
(***************************************************************************)
\* the concatenation of a sequence of sequences
RECURSIVE Flatten(_)
Flatten(ss) == IF ss = <<>> THEN <<>> ELSE Head(ss) \o Flatten(Tail(ss))

\* a sequence without the later occurrences of its elements
RECURSIVE Distinct(_)
Distinct(s) ==
    IF s = <<>> THEN <<>>
    ELSE LET r == Distinct(SubSeq(s, 1, Len(s) - 1))
         IN  IF s[Len(s)] \in Range(r) THEN r ELSE Append(r, s[Len(s)])

\* the requests of one kind, in the order they were issued
RequestsOf(kind) == SelectSeq(requests, LAMBDA q : q.kind = kind)

\* what the requests of one kind that succeeded returned, concatenated
DataOfOk(kind) ==
    LET ok == SelectSeq(requests, LAMBDA q : q.kind = kind /\ q.state = "ok")
    IN  Flatten([i \in 1..Len(ok) |-> ok[i].data])

\* the repositories derived from the listings that succeeded and from TARGET_REPOS
ExpectedRepos ==
    Distinct(DataOfOk("orgRepos") \o DataOfOk("userRepos")
             \o SelectSeq(config.targetRepos, LAMBDA r : SlashCount(r) = 1))

\* the commits derived from the commit requests of repository r that succeeded
ExpectedCommits(r) ==
    LET ok == SelectSeq(requests,
                        LAMBDA q : q.kind = "commits" /\ q.target = r /\ q.state = "ok")
    IN  KeepFirstBySha(Flatten([i \in 1..Len(ok) |-> ok[i].data]))

\* the events derived from the calls that succeeded
ExpectedEvents ==
    Flatten([k \in 1..Len(ExpectedRepos) |->
                IF ExpectedCommits(ExpectedRepos[k]) = <<>> THEN <<>>
                ELSE <<SyntheticEvent(ExpectedRepos[k], ExpectedCommits(ExpectedRepos[k]))>>])
    \o DataOfOk("userEvents")

\* the branches whose commits were requested for repository r, in order
BranchesRequestedOf(r) ==
    LET qs == SelectSeq(requests, LAMBDA q : q.kind = "commits" /\ q.target = r)
    IN  [i \in 1..Len(qs) |-> qs[i].branch]

\* every repository, every sampled branch and every user was attempted
AllAttempted ==
    /\ Len(RequestsOf("orgRepos")) = (IF config.organization THEN 1 ELSE 0)
    /\ Len(RequestsOf("userRepos")) = 1
    /\ [i \in 1..Len(RequestsOf("branches")) |-> RequestsOf("branches")[i].target]
          = ExpectedRepos
    /\ \A i \in 1..Len(RequestsOf("branches")) :
          LET q == RequestsOf("branches")[i]
          IN  BranchesRequestedOf(q.target)
                 = (IF q.state = "ok" THEN SampleBranches(q.data, maxBranches) ELSE <<>>)
    /\ [i \in 1..Len(RequestsOf("userEvents")) |-> RequestsOf("userEvents")[i].target]
          = config.targetUsers

\* C13: with a valid configuration, whatever listing, branch listing, commit
\* request or user event request fails, the run never exits non-zero;
\* fetchEvents returns, and when it has returned every repository of the
\* listings that succeeded, every sampled branch of every repository whose
\* branch listing succeeded and every user has been attempted, no request is
\* outstanding, and the events returned are exactly those derived from the
\* requests that succeeded.
C13_AvailabilityUnderFailure ==
    /\ exitCode \in {-1, 0}
    /\ mPc = "exit" <=> exitCode = 0
    /\ mPc \in {"fetch", "process", "exit"}
    /\ mPc # "fetch" =>
          /\ \A i \in 1..Len(requests) : requests[i].state \in {"ok", "failed"}
          /\ fRepos = ExpectedRepos
          /\ AllAttempted
          /\ fEvents = ExpectedEvents
          /\ events = ExpectedEvents

\* C13 witness: the organisation listing, the first repository's branch
\* listing, a branch of the second repository and the first user's events
\* failed; a later branch and the second user succeeded, and the run ended
\* with exit code 0 and a report
C13_Witness ==
    /\ mPc = "exit"
    /\ exitCode = 0
    /\ Len(console) = 1
    /\ \E i \in 1..Len(requests) :
          requests[i].kind = "orgRepos" /\ requests[i].state = "failed"
    /\ \E i, j, k \in 1..Len(requests) :
          /\ i < j /\ j < k
          /\ requests[i].kind = "branches" /\ requests[i].state = "failed"
          /\ requests[j].kind = "commits" /\ requests[j].state = "failed"
          /\ requests[k].kind = "commits" /\ requests[k].state = "ok"
          /\ requests[k].target = requests[j].target
          /\ requests[k].data # <<>>
    /\ \E i, j \in 1..Len(requests) :
          /\ i < j
          /\ requests[i].kind = "userEvents" /\ requests[i].state = "failed"
          /\ requests[j].kind = "userEvents" /\ requests[j].state = "ok"
          /\ requests[j].data # <<>>

\* C18: at every point of a run at most one request is outstanding, and it is
\* the one issued last; the requests of one repository's aggregation are
\* contiguous and the aggregations follow the order of the repository set, so
\* the aggregation of a repository starts only after the previous one has
\* completed or failed; within a repository the commit requests follow the
\* order of the sampled branches, each issued after the previous one settled.
C18_StrictlySequential ==
    /\ \A i \in 1..(Len(requests) - 1) : requests[i].state \in {"ok", "failed"}
    /\ \A i \in 1..Len(requests) :
          requests[i].kind = "commits" =>
             /\ i > 1
             /\ requests[i - 1].kind \in {"branches", "commits"}
             /\ requests[i - 1].target = requests[i].target
             /\ requests[i - 1].state \in {"ok", "failed"}
    /\ \A i \in 1..Len(RequestsOf("branches")) :
          /\ i <= Len(fRepos)
          /\ RequestsOf("branches")[i].target = fRepos[i]
    /\ Len(RequestsOf("branches")) \in {ri - 1, ri}
    /\ gPc \in {"loop", "commitsWait"} =>
          /\ Len(RequestsOf("branches")) = ri
          /\ BranchesRequestedOf(fRepos[ri])
                = SubSeq(branches, 1, IF gPc = "loop" THEN bi - 1 ELSE bi)
    /\ gPc \in {"branchesWait", "commitsWait"} \/ fPc \in {"orgWait", "userWait", "eventsWait"}
          <=> (requests # <<>> /\ requests[Len(requests)].state = "pending")

\* C18 witness: the commit request of the second sampled branch of the second
\* repository is outstanding; every earlier request has settled, one of them
\* by failing
C18_Witness ==
    /\ gPc = "commitsWait"
    /\ ri = 2
    /\ bi = 2
    /\ requests[Len(requests)].state = "pending"
    /\ requests[Len(requests)].target = fRepos[2]
    /\ requests[Len(requests)].branch = branches[2]
    /\ \E i \in 1..(Len(requests) - 1) :
          requests[i].kind = "commits" /\ requests[i].target = fRepos[1]
          /\ requests[i].state = "failed"

(***************************************************************************)
(* Claims about the Reporter's public methods (checked under SpecReport).  *)
(***************************************************************************)
\* the step is a call of the Reporter method `op`
IsCall(op) == rCount' # rCount /\ rCall'.op = op

\* the name of the date-stamped summary file of day d
DatedSummaryFile(d) == [base |-> "eod-summary", dated |-> TRUE, date |-> d, ext |-> "txt"]

\* the name of the full report file of date string d in format f
ReportFile(d, f) == [base |-> "contributions", dated |-> TRUE, date |-> d, ext |-> f]

\* C14: with noFiles enabled no call of print, writeToFile (in any format),
\* generateMinimalEODReport or writeMinimalEODReportFile changes the file
\* system: no file and no directory is created, no file is modified; and with
\* noFiles enabled or disabled alike, print sends the rendering of its
\* arguments to the console and generateMinimalEODReport returns the summary
\* of its argument.
C14_NoFilesWritesNothing ==
    [][/\ config.noFiles => files' = files
       /\ IsCall("print") =>
             console' = Append(console, Printed(rCall'.contribs, rCall'.date))
       /\ ~IsCall("print") => console' = console
       /\ IsCall("generateMinimalEODReport") =>
             rReturned' = generateMinimalEODReport(rCall'.contribs)]_vars

\* C14 witness: with noFiles enabled and an older summary in the output
\* directory, a report was printed and writeToFile was then called for JSON;
\* the directory holds the older summary and nothing else
C14_Witness ==
    /\ config.noFiles
    /\ rCall.op = "writeToFile"
    /\ rCall.format = "json"
    /\ rCall.contribs # <<>>
    /\ console # <<>>
    /\ files = WriteFile(MkDir(<<>>), LatestSummaryFile, NoMessage)

\* C16: after writeToFile(contributions, date, 'json') with file output
\* enabled, the file contributions-<date>.json exists and parsing its text
\* yields the list that was passed: the same repositories and commits, in the
\* same order, neither sorted nor deduplicated.
C16_JsonVerbatim ==
    (rCall.op = "writeToFile" /\ rCall.format = "json" /\ ~config.noFiles) =>
       /\ ReportFile(rCall.date, "json") \in DOMAIN files
       /\ files[ReportFile(rCall.date, "json")].format = "json"
       /\ JSONParse(files[ReportFile(rCall.date, "json")].body) = rCall.contribs

\* C16 witness: a list with a repeated hash, which the text rendering would
\* reorder and deduplicate, was written as JSON and reads back unchanged
C16_Witness ==
    /\ rCall.op = "writeToFile"
    /\ rCall.format = "json"
    /\ ~config.noFiles
    /\ Len(rCall.contribs) = 2
    /\ Render(rCall.contribs) # rCall.contribs
    /\ JSONParse(files[ReportFile(rCall.date, "json")].body) = rCall.contribs

\* C17: with file output enabled, right after every call of
\* writeMinimalEODReportFile(m) the file eod-summary-<date>.txt of the current
\* UTC date and the file eod-summary.txt both exist and both hold exactly m;
\* no other call creates, removes or changes a summary file, so
\* eod-summary.txt always holds the message of the most recent call.
C17_BothSummaryFiles ==
    [][~config.noFiles =>
          /\ IsCall("writeMinimalEODReportFile") =>
                /\ DatedSummaryFile(formatISODate(now)) \in DOMAIN files'
                /\ files'[DatedSummaryFile(formatISODate(now))] = rCall'.message
                /\ LatestSummaryFile \in DOMAIN files'
                /\ files'[LatestSummaryFile] = rCall'.message
          /\ ~IsCall("writeMinimalEODReportFile") =>
                /\ \A n \in DOMAIN files' : n.base = "eod-summary" => n \in DOMAIN files
                /\ \A n \in DOMAIN files :
                      n.base = "eod-summary" => (n \in DOMAIN files' /\ files'[n] = files[n])]_vars

\* C17 witness: the fixed file held an older summary; after another call came
\* writeMinimalEODReportFile(m), and both files hold m
C17_Witness ==
    /\ ~config.noFiles
    /\ rCount >= 2
    /\ rCall.op = "writeMinimalEODReportFile"
    /\ rCall.message # NoMessage
    /\ rCall.message.body # <<>>
    /\ DatedSummaryFile(formatISODate(now)) \in DOMAIN files
    /\ files[DatedSummaryFile(formatISODate(now))] = rCall.message
    /\ files[LatestSummaryFile] = rCall.message

(***************************************************************************)
(* Claims about the report files of a run (checked under SpecMain).        *)
(***************************************************************************)
\* C15: a run with --output f that finds contributions and has file output
\* enabled writes contributions-<date>.f, rendered in format f.
C15_OutputSelectsFormat ==
    (mPc = "exit" /\ exitCode = 0 /\ console # <<>> /\ ~config.noFiles) =>
       /\ ReportFile(console[1].title, config.output) \in DOMAIN files
       /\ files[ReportFile(console[1].title, config.output)].format = config.output

(***************************************************************************)
(* Claims about the grouping and ordering of EODProcessor.process          *)
(* (checked under SpecProcess).                                            *)
(***************************************************************************)
\* the repositories of the returned Contributions, in order
ContributionRepos == [k \in 1..Len(contributions) |-> contributions[k].repo]

\* C19: no Contribution returned by process has an empty commit list: a
\* repository has an entry exactly when some qualifying event of it carries a
\* commit that the per-commit author filter keeps, so an event that passes
\* only through its actor login, or has no commits payload, adds no entry.
C19_NoEmptyContribution ==
    pPc = "done" =>
       /\ \A k \in 1..Len(contributions) : contributions[k].commits # <<>>
       /\ \A r \in RepoNames :
             r \in Range(ContributionRepos) <=> KeptPayloadCommits(r) # {}

\* C19 witness: targetUsers = [alice]; an event pushed by alice carrying only a
\* commit of bob passed the event filter, and nothing was returned
C19_Witness ==
    /\ pPc = "done"
    /\ eTargetUsers = <<"alice">>
    /\ \E j \in 1..Len(filteredEvents) :
          /\ filteredEvents[j].login = "alice"
          /\ filteredEvents[j].commits = <<PayloadCommitB>>
    /\ contributions = <<>>

\* the UTF-16 code unit at which the repository names of the model first
\* differ: "org/Zeta" has Z (90) where "org/app" has a (97)
FirstDifferingCodeUnit(repo) == IF repo = "org/Zeta" THEN 90 ELSE 97

\* C20 as claimed: the returned list is in ascending order of repository name
\* under case-sensitive (code unit) lexicographic comparison.
C20_CaseSensitiveOrder ==
    pPc = "done" =>
       \A i, j \in 1..Len(contributions) :
          i < j => FirstDifferingCodeUnit(contributions[i].repo)
                      < FirstDifferingCodeUnit(contributions[j].repo)

\* C20 amended: the returned list holds one Contribution per distinct
\* repository name that has a kept commit, in ascending order under
\* localeCompare (letters before case: "org/app" precedes "org/Zeta"), for
\* every order of the input events.
C20_LocaleCompareOrder ==
    pPc = "done" =>
       /\ \A i, j \in 1..Len(contributions) :
             i < j => LocaleRank(contributions[i].repo) < LocaleRank(contributions[j].repo)
       /\ Range(ContributionRepos) = {r \in RepoNames : KeptPayloadCommits(r) # {}}

\* C20 witness: the first kept event is of org/Zeta, the second of org/app,
\* and the list returned has org/app first
C20_Witness ==
    /\ pPc = "done"
    /\ Len(filteredEvents) = 2
    /\ filteredEvents[1].repo = "org/Zeta"
    /\ filteredEvents[2].repo = "org/app"
    /\ ContributionRepos = <<"org/app", "org/Zeta">>

(***************************************************************************)
(* User tracking by GitHub username (checked under SpecProcess).           *)
(***************************************************************************)
\* C21: a push event of the target day and of a target repository whose actor
\* login is among the target users yields a Contribution for its repository
\* that contains every commit of its payload, also when no commit author name
\* is among the target users.
C21_ActorLoginYieldsCommits ==
    pPc = "done" =>
       \A j \in 1..Len(events) :
          (/\ QualifiesByType(events[j])
           /\ QualifiesByDate(events[j])
           /\ QualifiesByRepo(events[j])
           /\ events[j].hasActor
           /\ events[j].login \in Range(eTargetUsers)
           /\ events[j].hasCommits)
          => /\ events[j].repo \in Range(ContributionRepos)
             /\ \A pc \in Range(events[j].commits) :
                   \E c \in Range(CommitsOfRepo(events[j].repo)) :
                      StemsFrom(c, pc, events[j])

(***************************************************************************)
(* Repository resolution (checked under SpecFetch).                        *)
(***************************************************************************)
\* the full names of the listings that succeeded and of the well-formed
\* entries of TARGET_REPOS
ResolvedNames ==
    UNION {Range(requests[i].data) :
              i \in {k \in 1..Len(requests) :
                        /\ requests[k].kind \in {"orgRepos", "userRepos"}
                        /\ requests[k].state = "ok"}}
    \cup {r \in Range(config.targetRepos) : SlashCount(r) = 1}

\* C22: once the listings have settled, the repositories of the pass hold no
\* name twice and are exactly the names of the organisation listing (when one
\* is configured and it succeeded), of the account listing (when it
\* succeeded) and of the well-formed explicit entries; getCommitsForRepo is
\* never started twice for one name, and when fetchEvents has returned it was
\* started exactly once for each of them.
C22_ReposAreASet ==
    /\ (mPc # "fetch" \/ fPc \in {"repos", "eventsWait"}) =>
          /\ Range(fRepos) = ResolvedNames
          /\ Cardinality(Range(fRepos)) = Len(fRepos)
    /\ \A i, j \in 1..Len(requests) :
          (requests[i].kind = "branches" /\ requests[j].kind = "branches"
           /\ requests[i].target = requests[j].target) => i = j
    /\ \A i \in 1..Len(requests) :
          requests[i].kind = "branches" => requests[i].target \in Range(fRepos)
    /\ mPc # "fetch" =>
          \A r \in ResolvedNames :
             Cardinality({i \in 1..Len(requests) :
                            requests[i].kind = "branches" /\ requests[i].target = r}) = 1

\* C22 witness: the organisation listing, the account listing and TARGET_REPOS
\* all name org/app, TARGET_REPOS also holds an entry with two '/', and
\* fetchEvents returned after starting getCommitsForRepo for two repositories
C22_Witness ==
    /\ mPc # "fetch"
    /\ config.targetRepos = <<"org/app/x", "org/app">>
    /\ \E i, j \in 1..Len(requests) :
          /\ requests[i].kind = "orgRepos" /\ requests[i].state = "ok"
          /\ requests[j].kind = "userRepos" /\ requests[j].state = "ok"
          /\ "org/app" \in Range(requests[i].data) \cap Range(requests[j].data)
    /\ fRepos = <<"org/app", "org/Zeta">>
    /\ Len(RequestsOf("branches")) = 2

(***************************************************************************)
(* Branch cap and merge order of getCommitsForRepo (checked under          *)
(* SpecAgg).                                                               *)
(***************************************************************************)
\* C23: for every branch listing and every cap maxBranches >= 0, commits are
\* requested for at most maxBranches branches.
C23_AtMostCapRequests ==
    maxBranches >= 0 => Len(reqLog) <= maxBranches /\ Len(branches) <= maxBranches

\* the position at which a sha occurs first in a list of commits
FirstAt(cat, sha) ==
    CHOOSE i \in 1..Len(cat) :
       /\ cat[i].sha = sha
       /\ \A k \in 1..(i - 1) : cat[k].sha # sha

\* C24: the merged list is first-seen-wins ordered: the branch requests follow
\* the sampled order, and the list holds, for every sha returned by a
\* successful request, the record of its first occurrence in the
\* concatenation of the successful responses, these records standing in the
\* order of their first occurrences.
C24_FirstSeenWins ==
    gPc \in {"loop", "done"} =>
       LET cat == OkCommits(reqLog)
       IN  /\ RequestedBranches = SubSeq(branches, 1, Len(reqLog))
           /\ Len(allCommits) = Cardinality({cat[i].sha : i \in 1..Len(cat)})
           /\ \A i \in 1..Len(allCommits) :
                 /\ \E k \in 1..Len(cat) : cat[k].sha = allCommits[i].sha
                 /\ allCommits[i] = cat[FirstAt(cat, allCommits[i].sha)]
           /\ \A i, j \in 1..Len(allCommits) :
                 i < j => FirstAt(cat, allCommits[i].sha) < FirstAt(cat, allCommits[j].sha)

\* C24 witness: the call returned after a later branch returned a new commit
\* followed by a commit that an earlier branch had returned already
C24_Witness ==
    /\ gPc = "done"
    /\ Len(allCommits) = 2
    /\ \E r1, r2 \in 1..Len(reqLog) :
          /\ r1 < r2
          /\ reqLog[r1].ok /\ reqLog[r2].ok
          /\ Len(reqLog[r1].data) = 1 /\ Len(reqLog[r2].data) = 2
          /\ reqLog[r2].data[2] = reqLog[r1].data[1]
          /\ reqLog[r2].data[1].sha # reqLog[r1].data[1].sha
          /\ allCommits = <<reqLog[r1].data[1], reqLog[r2].data[1]>>

(***************************************************************************)
(* Order of the rendered commits (checked under SpecReporter).             *)
(***************************************************************************)
\* C25: the commits a rendering path shows for a Contribution, which are the
\* result of sortAndDedup, stand in non-increasing timestamp order, and no two
\* of them share a truncated hash.
C25_RenderedSortedAndUnique ==
    rPc \in {"once", "twice"} =>
       /\ \A i, j \in 1..Len(rOnce) :
             i < j => rOnce[i].timestamp >= rOnce[j].timestamp
       /\ \A i, j \in 1..Len(rOnce) :
             rOnce[i].hash = rOnce[j].hash => i = j

(***************************************************************************)
(* WhatsAppService.formatContent.  A content is a sequence of characters;  *)
(* a message is its header (which holds the part label, 0/0 when there is  *)
(* none) followed by its text.  One step per await-free piece of the       *)
(* method: the test of the length, one iteration of the while loop, the    *)
(* return.                                                                 *)
(***************************************************************************)
\* the characters of a content: a letter and the line break
ContentChars == {"a", "\n"}

Contents == SeqsUpTo(ContentChars, MaxContent)

\* String.prototype.lastIndexOf(ch, fromIndex), 0-based, -1 when not found
lastIndexOf(str, ch, fromIndex) ==
    LET at == {i \in 0..Min(fromIndex, Len(str) - 1) : str[i + 1] = ch}
    IN  IF at = {} THEN -1 ELSE CHOOSE i \in at : \A j \in at : j <= i

\* String.prototype.substring(from, to), 0-based, to exclusive
substring(str, from, to) == SubSeq(str, from + 1, to)

\* Math.ceil(a / b) for a >= 0, b > 0
Ceil(a, b) == (a + b - 1) \div b

\* messageHeader + part
Message(part, total, text) == [part |-> part, total |-> total, text |-> text]

\* the endIndex of one iteration of the while loop
EndIndex(remaining) ==
    LET endIndex == Min(MAX_CONTENT_LENGTH, Len(remaining))
        lastLineBreak == lastIndexOf(remaining, "\n", MAX_CONTENT_LENGTH)
    IN  IF endIndex < Len(remaining) /\ 2 * lastLineBreak > MAX_CONTENT_LENGTH
        THEN lastLineBreak + 1
        ELSE endIndex

\* what formatContent leaves alone
FormatFrame ==
    /\ UNCHANGED <<nPc, nWritten, nLatest, nSummary>>
    /\ UNCHANGED <<aggVars, repVars, eodVars, mainVars>>

\* formatContent(content) up to the while loop: a short content is returned
\* as one message, otherwise the locals of the loop are set up
FormatContentCall ==
    /\ wPc = "ready"
    /\ IF Len(wContent) <= MAX_CONTENT_LENGTH
       THEN /\ messages' = <<Message(0, 0, wContent)>>
            /\ wPc' = "done"
            /\ UNCHANGED <<remainingContent, partNumber, totalParts>>
       ELSE /\ messages' = <<>>
            /\ remainingContent' = wContent
            /\ partNumber' = 1
            /\ totalParts' = Ceil(Len(wContent), MAX_CONTENT_LENGTH)
            /\ wPc' = "loop"
    /\ UNCHANGED wContent
    /\ FormatFrame

\* one iteration of while (remainingContent.length > 0)
SplitPart ==
    /\ wPc = "loop"
    /\ Len(remainingContent) > 0
    /\ LET endIndex == EndIndex(remainingContent)
       IN  /\ messages' = Append(messages,
                                 Message(partNumber, totalParts,
                                         substring(remainingContent, 0, endIndex)))
           /\ remainingContent' =
                 substring(remainingContent, endIndex, Len(remainingContent))
    /\ partNumber' = partNumber + 1
    /\ UNCHANGED <<wPc, wContent, totalParts>>
    /\ FormatFrame

\* the loop ends: return messages
FormatContentReturn ==
    /\ wPc = "loop"
    /\ Len(remainingContent) = 0
    /\ wPc' = "done"
    /\ UNCHANGED <<wContent, remainingContent, messages, partNumber, totalParts>>
    /\ FormatFrame

FormatInit ==
    /\ wPc = "ready"
    /\ wContent \in Contents
    /\ remainingContent = <<>>
    /\ messages = <<>>
    /\ partNumber = 1
    /\ totalParts = 0
    /\ NotifierIdle
    /\ rPc = "idle"
    /\ rCommits = <<>>
    /\ rOnce = <<>>
    /\ rTwice = <<>>
    /\ rCall = NoCall
    /\ rReturned = NoMessage
    /\ rCount = 0
    /\ AggIdle
    /\ EodIdle
    /\ MainIdle

FormatNext ==
    \/ FormatContentCall
    \/ SplitPart
    \/ FormatContentReturn

SpecWhatsApp == FormatInit /\ [][FormatNext]_vars

\* C26: for a content longer than the single-message limit, formatContent
\* returns at least two messages whose texts concatenated in order are the
\* content, and the i-th message is labelled Part i/n with n the number of
\* messages returned.
C26_PartLabelsMatchCount ==
    (wPc = "done" /\ Len(wContent) > MAX_CONTENT_LENGTH) =>
       /\ Len(messages) >= 2
       /\ Flatten([i \in 1..Len(messages) |-> messages[i].text]) = wContent
       /\ \A i \in 1..Len(messages) :
             messages[i].part = i /\ messages[i].total = Len(messages)

(***************************************************************************)
(* The notifier (send-whatsapp) run after a tracker run: getLatestFile on  *)
(* the output directory, then readFileContent.  File names are compared    *)
(* as Array.prototype.sort compares strings: by UTF-16 code units.         *)
(***************************************************************************)
\* the UTF-16 code units of the characters file names are made of
CodeUnitOf ==
    ("-" :> 45) @@ ("." :> 46)
    @@ ("0" :> 48) @@ ("1" :> 49) @@ ("2" :> 50) @@ ("3" :> 51) @@ ("4" :> 52)
    @@ ("5" :> 53) @@ ("6" :> 54) @@ ("7" :> 55) @@ ("8" :> 56) @@ ("9" :> 57)
    @@ ("a" :> 97) @@ ("b" :> 98) @@ ("c" :> 99) @@ ("d" :> 100) @@ ("e" :> 101)
    @@ ("i" :> 105) @@ ("j" :> 106) @@ ("m" :> 109) @@ ("n" :> 110) @@ ("o" :> 111)
    @@ ("p" :> 112) @@ ("r" :> 114) @@ ("s" :> 115) @@ ("t" :> 116) @@ ("u" :> 117)
    @@ ("x" :> 120) @@ ("y" :> 121)

\* the characters of the words file names are made of
CharsOf(word) ==
    CASE word = "eod-summary" -> <<"e", "o", "d", "-", "s", "u", "m", "m", "a", "r", "y">>
      [] word = "contributions" ->
            <<"c", "o", "n", "t", "r", "i", "b", "u", "t", "i", "o", "n", "s">>
      [] word = "reports" -> <<"r", "e", "p", "o", "r", "t", "s">>
      [] word = "txt" -> <<"t", "x", "t">>
      [] word = "json" -> <<"j", "s", "o", "n">>
      [] word = "md" -> <<"m", "d">>
      [] OTHER -> <<>>

Digit(k) == <<"0", "1", "2", "3", "4", "5", "6", "7", "8", "9">>[k + 1]

\* toISOString().split('T')[0] of day number d (day 0 is 1970-01-01)
DateText(d) ==
    <<"1", "9", "7", "0", "-", "0", "1", "-", Digit((d + 1) \div 10), Digit((d + 1) % 10)>>

\* the name of a directory entry as a string: `eod-summary-${dateStr}.txt`,
\* `eod-summary.txt`, `contributions-${dateStr}.${format}`
FileNameText(name) ==
    CharsOf(name.base)
    \o (IF name.dated THEN <<"-">> \o DateText(name.date) ELSE <<>>)
    \o (IF name.ext = "" THEN <<>> ELSE <<".">> \o CharsOf(name.ext))

\* String.prototype.startsWith
startsWith(text, pattern) ==
    Len(pattern) <= Len(text) /\ SubSeq(text, 1, Len(pattern)) = pattern

\* the order of Array.prototype.sort() without a comparator: a precedes b
\* when a is a proper prefix of b or holds the smaller code unit at the first
\* position where they differ
CodeUnitLess(a, b) ==
    \E k \in 1..(Len(b)) :
       /\ \A i \in 1..(k - 1) : i <= Len(a) /\ a[i] = b[i]
       /\ (k > Len(a) \/ (k <= Len(a) /\ CodeUnitOf[a[k]] < CodeUnitOf[b[k]]))

\* names.sort()
RECURSIVE SortNames(_)
SortNames(names) ==
    IF names = {} THEN <<>>
    ELSE LET first == CHOOSE n \in names :
                         \A o \in names \ {n} :
                            CodeUnitLess(FileNameText(n), FileNameText(o))
         IN  <<first>> \o SortNames(names \ {first})

\* Array.prototype.reverse
Reverse(list) == [i \in 1..Len(list) |-> list[Len(list) + 1 - i]]

\* mutant: the sorted list is not reversed
getLatestFileNoReverse(fs, pattern) ==
    IF OutputDir \notin DOMAIN fs THEN NoFile
    ELSE LET matching == {n \in DOMAIN fs \ {OutputDir} :
                             startsWith(FileNameText(n), CharsOf(pattern))}
             sorted == SortNames(matching)
         IN  IF Len(sorted) = 0 THEN NoFile ELSE sorted[1]

\* getLatestFile(dirPath, pattern) on the output directory
getLatestFile(fs, pattern) ==
    IF OutputDir \notin DOMAIN fs THEN NoFile
    ELSE LET matching == {n \in DOMAIN fs \ {OutputDir} :
                             startsWith(FileNameText(n), CharsOf(pattern))}
             sorted == Reverse(SortNames(matching))
         IN  IF Len(sorted) = 0 THEN NoFile ELSE sorted[1]

\* the days of the date-stamped summary files left by earlier runs
StaleDays == {1, 2, 9}

\* the summary an earlier run wrote
StaleSummary == [format |-> "summary", title |-> 1, body |-> <<>>]

\* the entries earlier runs may have left in the output directory
StaleNames ==
    {[base |-> "eod-summary", dated |-> FALSE, date |-> 0, ext |-> "txt"],
     [base |-> "contributions", dated |-> TRUE, date |-> 2, ext |-> "txt"]}
    \cup {[base |-> "eod-summary", dated |-> TRUE, date |-> d, ext |-> "txt"] :
             d \in StaleDays}

\* the output directory before the tracker run: absent, or holding any of them
NotifierFileSystems ==
    {<<>>}
    \cup {[n \in left \cup {OutputDir} |->
             IF n = OutputDir THEN [format |-> "dir", title |-> 0, body |-> <<>>]
             ELSE StaleSummary] : left \in SUBSET StaleNames}

\* what the tracker run and the notifier leave alone
NotifierFrame ==
    /\ UNCHANGED <<mPc, env, config, now, pass, fPc, fDate, fRepos, ri, ui, fEvents,
                   mContributions, requests, console, exitCode>>
    /\ UNCHANGED <<wPc, wContent, remainingContent, messages, partNumber, totalParts>>
    /\ UNCHANGED <<aggVars, repVars, eodVars>>

\* the tracker run found contributions and wrote their summary
TrackerWroteSummary ==
    /\ nPc = "start"
    /\ \E contribs \in ReportContributions \ {<<>>} :
          LET message == generateMinimalEODReport(contribs)
          IN  /\ files' = writeMinimalEODReportFile(files, FALSE, message)
              /\ nWritten' = message
    /\ nPc' = "ready"
    /\ UNCHANGED <<nLatest, nSummary>>
    /\ NotifierFrame

\* the tracker run found no contributions: it writes no file
TrackerWroteNothing ==
    /\ nPc = "start"
    /\ nPc' = "ready"
    /\ UNCHANGED <<files, nWritten, nLatest, nSummary>>
    /\ NotifierFrame

\* send-whatsapp: getLatestFile found a file and readFileContent reads it
ReadLatestSummary ==
    /\ nPc = "ready"
    /\ getLatestFile(files, "eod-summary") # NoFile
    /\ nLatest' = getLatestFile(files, "eod-summary")
    /\ nSummary' = files[getLatestFile(files, "eod-summary")]
    /\ nPc' = "read"
    /\ UNCHANGED <<files, nWritten>>
    /\ NotifierFrame

\* send-whatsapp: getLatestFile returned null, 'No EOD summary files found'
NoSummaryFound ==
    /\ nPc = "ready"
    /\ getLatestFile(files, "eod-summary") = NoFile
    /\ nPc' = "threw"
    /\ UNCHANGED <<files, nWritten, nLatest, nSummary>>
    /\ NotifierFrame

NotifierInit ==
    /\ nPc = "start"
    /\ nWritten = NoMessage
    /\ nLatest = NoFile
    /\ nSummary = NoMessage
    /\ FormatIdle
    /\ rPc = "idle"
    /\ rCommits = <<>>
    /\ rOnce = <<>>
    /\ rTwice = <<>>
    /\ rCall = NoCall
    /\ rReturned = NoMessage
    /\ rCount = 0
    /\ AggIdle
    /\ EodIdle
    /\ mPc = "idle"
    /\ env = NoConfig
    /\ config = NoConfig
    /\ now \in {3 * MsPerDay + 10 * MsPerHour, 4 * MsPerDay + 10 * MsPerHour}
    /\ pass = 1
    /\ FetchIdle
    /\ mContributions = <<>>
    /\ requests = <<>>
    /\ console = <<>>
    /\ files \in NotifierFileSystems
    /\ exitCode = -1

NotifierNext ==
    \/ TrackerWroteSummary
    \/ TrackerWroteNothing
    \/ ReadLatestSummary
    \/ NoSummaryFound

SpecNotifier == NotifierInit /\ [][NotifierNext]_vars

\* C27: whenever eod-summary.txt is in the output directory, with any number
\* of date-stamped eod-summary files beside it, getLatestFile(outputDir,
\* 'eod-summary') selects eod-summary.txt; so after a tracker run that wrote a
\* summary the notifier reads the summary of that run.
C27_LatestPointerSelected ==
    /\ LatestSummaryFile \in DOMAIN files =>
          getLatestFile(files, "eod-summary") = LatestSummaryFile
    /\ nPc = "read" =>
          /\ LatestSummaryFile \in DOMAIN files => nLatest = LatestSummaryFile
          /\ nWritten # NoMessage => nSummary = nWritten

\* C27 witness: the directory held three date-stamped summaries of other days
\* and an older eod-summary.txt, the run wrote a new summary, and the notifier
\* read that one from eod-summary.txt
C27_Witness ==
    /\ nPc = "read"
    /\ nWritten # NoMessage
    /\ \A d \in StaleDays : DatedSummaryFile(d) \in DOMAIN files
    /\ \A d \in StaleDays : files[DatedSummaryFile(d)] = StaleSummary
    /\ DatedSummaryFile(formatISODate(now)) \in DOMAIN files
    /\ nLatest = LatestSummaryFile
    /\ nSummary = nWritten
    /\ nSummary # StaleSummary

(***************************************************************************)
(* Claims about the dates of a run of main (checked under SpecMain).       *)
(***************************************************************************)
\* an event that came from a user's public events, not from a repository's commits
IsUserEvent(e) == \E list \in UserEventLists : e \in Range(list)

\* C28: every event fetchEvents builds from a repository's commits for date D
\* is stamped with the start of day of D and lies in the date range of D; the
\* EODProcessor of the pass is configured with the same D, finds the event on
\* its day and keeps it whenever it matches the repository and user filters,
\* in the first pass and in the previous-day pass.
C28_SyntheticEventsPassDateCheck ==
    /\ \A i \in 1..Len(fEvents) :
          ~IsUserEvent(fEvents[i]) =>
             /\ fEvents[i].created_at = getStartOfDay(fDate)
             /\ isDateInRange(fEvents[i].created_at, fDate)
    /\ (mPc \in {"process", "exit"} /\ pPc \in {"ready", "done"}) =>
          /\ eDate = fDate
          /\ events = fEvents
          /\ fDate = (IF pass = 2 THEN getPreviousDay(config.date) ELSE config.date)
    /\ (mPc \in {"process", "exit"} /\ pPc = "done") =>
          \A i \in 1..Len(events) :
             ~IsUserEvent(events[i]) =>
                /\ QualifiesByDate(events[i])
                /\ (repoMatch(events[i]) /\ userMatch(events[i]))
                      => events[i] \in Range(filteredEvents)

\* C28 witness: in a time zone behind UTC the previous-day pass built an event
\* from a repository's commits, the processor kept it, and it was reported
C28_Witness ==
    /\ mPc = "exit"
    /\ pass = 2
    /\ tz < 0
    /\ Len(console) = 1
    /\ \E i \in 1..Len(events) :
          /\ ~IsUserEvent(events[i])
          /\ events[i].created_at = getStartOfDay(getPreviousDay(config.date))
          /\ events[i] \in Range(filteredEvents)

C30_SummaryDatedByWallClock ==
    (mPc = "exit" /\ Len(console) = 1 /\ ~config.noFiles) =>
       /\ ReportFile(ReportDate, "txt") \in DOMAIN files
       /\ console[1].title = ReportDate
       /\ DatedSummaryFile(formatISODate(now)) \in DOMAIN files
       /\ LatestSummaryFile \in DOMAIN files
       /\ \A n \in DOMAIN files :
             n.base = "eod-summary" =>
                /\ n.dated => n.date = formatISODate(now)
                /\ files[n].title = LocalDateString(now)
                /\ ReportDate # formatISODate(now) =>
                      /\ n.dated => n.date # ReportDate
                      /\ files[n].title # ReportDate

\* C30 witness: the fallback day was reported, in a time zone behind UTC; the
\* report file carries the fallback day and the summary carries today
C30_Witness ==
    /\ mPc = "exit"
    /\ pass = 2
    /\ tz < 0
    /\ Len(console) = 1
    /\ ~config.noFiles
    /\ ReportDate < formatISODate(now)
    /\ ReportFile(ReportDate, "txt") \in DOMAIN files
    /\ DatedSummaryFile(ReportDate) \notin DOMAIN files
    /\ DatedSummaryFile(formatISODate(now)) \in DOMAIN files
    /\ files[LatestSummaryFile].title = LocalDateString(now)
    /\ files[LatestSummaryFile].title # ReportDate

====
